---- MODULE Spec2Model ----
(***************************************************************************)
(* Schema-validated property-graph store of packages/db/src/graph:         *)
(* the Zod schema serializer, the strict/loose validator, the schema-change *)
(* detector, the type registry and the element/link store.                 *)
(*                                                                         *)
(* JSON values are modelled as atoms (strings holding the JSON text) so    *)
(* that every position of a record holds one kind of TLA+ value.  A stored *)
(* payload (Record<string, unknown>) is a function from its keys to atoms. *)
(***************************************************************************)
EXTENDS Integers, Sequences, FiniteSets, TLC

(***************************************************************************)
(* Bounds of the model.                                                    *)
(***************************************************************************)
\* number of element ids crypto.randomUUID() may hand out in one behaviour
MaxElements == 2
\* number of link ids crypto.randomUUID() may hand out in one behaviour
MaxLinks == 1
\* number of wrappers (.optional(), .nullable(), .default(v)) stacked on a schema
MaxWrap == 2
\* largest number of existing records passed to isSchemaChangeSafe
MaxCount == 2

(***************************************************************************)
(* JSON values.                                                            *)
(***************************************************************************)
undefined == "undefined"
null == "null"

\* a nested object value {p: 1, q: 1} restricted to a set of keys
NestedKeySet == {"p", "q"}
NestedAtom(keys) ==
    IF keys = {} THEN "{}"
    ELSE IF keys = {"p"} THEN "{p}"
    ELSE IF keys = {"q"} THEN "{q}"
    ELSE "{p,q}"
NestedKeys(v) ==
    IF v = "{p}" THEN {"p"}
    ELSE IF v = "{q}" THEN {"q"}
    ELSE IF v = "{p,q}" THEN {"p", "q"}
    ELSE {}

\* JavaScript's typeof, with null and undefined told apart
typeOf(v) ==
    IF v = undefined THEN "undefined"
    ELSE IF v = null THEN "null"
    ELSE IF v \in {"true", "false"} THEN "boolean"
    ELSE IF v \in {"0", "1"} THEN "number"
    ELSE IF v \in {"{}", "{p}", "{q}", "{p,q}"} THEN "object"
    ELSE "string"

\* JavaScript's Boolean(v): the falsy values are false, 0, "", null, undefined
Truthy(v) == v \notin {undefined, null, "false", "0", "''"}

EmptyObject == [k \in {} |-> undefined]

\* { ...a, ...b }: b's keys win, a's other keys are kept
Spread(a, b) ==
    [k \in (DOMAIN a) \cup (DOMAIN b) |-> IF k \in DOMAIN b THEN b[k] ELSE a[k]]

(***************************************************************************)
(* Live Zod schemas (the z.* constructors the serializer recognises).      *)
(***************************************************************************)
Leaf(kind) == [kind |-> kind]
ZodString == Leaf("ZodString")
ZodNumber == Leaf("ZodNumber")
ZodBoolean == Leaf("ZodBoolean")
ZodAny == Leaf("ZodAny")
ZodUnknown == Leaf("ZodUnknown")
ZodLazy == Leaf("ZodLazy")
ZodFunction == Leaf("ZodFunction")
ZodEffects == Leaf("ZodEffects")
ZodOptional(s) == [kind |-> "ZodOptional", innerType |-> s]
ZodNullable(s) == [kind |-> "ZodNullable", innerType |-> s]
ZodDefault(s, v) == [kind |-> "ZodDefault", innerType |-> s, defaultValue |-> v]
ZodArray(s) == [kind |-> "ZodArray", element |-> s]
ZodObject(shape) == [kind |-> "ZodObject", shape |-> shape]
ZodEnum(values) == [kind |-> "ZodEnum", values |-> values]
ZodLiteral(v) == [kind |-> "ZodLiteral", value |-> v]
ZodUnion(options) == [kind |-> "ZodUnion", options |-> options]
ZodIntersection(l, r) == [kind |-> "ZodIntersection", left |-> l, right |-> r]
\* rest is <<>> (no rest) or <<schema>>
ZodTuple(items, rest) == [kind |-> "ZodTuple", items |-> items, rest |-> rest]
ZodRecord(k, v) == [kind |-> "ZodRecord", keyType |-> k, valueType |-> v]
ZodMap(k, v) == [kind |-> "ZodMap", keyType |-> k, valueType |-> v]
ZodSet(v) == [kind |-> "ZodSet", valueType |-> v]
ZodPromise(s) == [kind |-> "ZodPromise", type |-> s]

PrimitiveKinds ==
    [ZodString |-> "string", ZodNumber |-> "number", ZodBoolean |-> "boolean",
     ZodDate |-> "date", ZodBigInt |-> "bigint", ZodSymbol |-> "symbol",
     ZodUndefined |-> "undefined", ZodNull |-> "null", ZodVoid |-> "void",
     ZodAny |-> "any", ZodUnknown |-> "unknown", ZodNever |-> "never"]

(***************************************************************************)
(* Serialized schemas (SerializedSchema).  A JavaScript object keeps its   *)
(* keys in insertion order and JSON.stringify prints them in that order,   *)
(* so the annotation keys are kept as a sequence of <<key, value>> pairs.  *)
(***************************************************************************)
Desc(type) == [type |-> type, ann |-> <<>>]

HasKey(d, key) == \E i \in 1..Len(d.ann) : d.ann[i][1] = key
GetKey(d, key) ==
    IF HasKey(d, key)
    THEN (CHOOSE p \in {d.ann[i] : i \in 1..Len(d.ann)} : p[1] = key)[2]
    ELSE undefined

\* { ...inner, key: value }: an existing key keeps its place, a new one goes last
SetKey(d, key, value) ==
    [d EXCEPT !.ann =
        IF HasKey(d, key)
        THEN [i \in 1..Len(@) |-> IF @[i][1] = key THEN <<key, value>> ELSE @[i]]
        ELSE Append(@, <<key, value>>)]

UnknownDesc == [type |-> "unknown", ann |-> <<>>]

(***************************************************************************)
(* serializeZodSchema, deserializeZodSchema (zod-serializer).              *)
(***************************************************************************)
RECURSIVE serializeZodSchema(_)
serializeZodSchema(schema) ==
    \* wrapper types first: the annotation is flattened onto the inner node
    IF schema.kind = "ZodOptional"
    THEN SetKey(serializeZodSchema(schema.innerType), "optional", "true")
    ELSE IF schema.kind = "ZodNullable"
    THEN SetKey(serializeZodSchema(schema.innerType), "nullable", "true")
    ELSE IF schema.kind = "ZodDefault"
    THEN SetKey(serializeZodSchema(schema.innerType), "default", schema.defaultValue)
    ELSE IF schema.kind \in DOMAIN PrimitiveKinds
    THEN Desc(PrimitiveKinds[schema.kind])
    ELSE IF schema.kind = "ZodArray"
    THEN [type |-> "array", ann |-> <<>>, element |-> serializeZodSchema(schema.element)]
    ELSE IF schema.kind = "ZodObject"
    THEN [type |-> "object", ann |-> <<>>,
          shape |-> [k \in DOMAIN schema.shape |-> serializeZodSchema(schema.shape[k])]]
    ELSE IF schema.kind = "ZodEnum"
    THEN [type |-> "enum", ann |-> <<>>, values |-> schema.values]
    ELSE IF schema.kind = "ZodLiteral"
    THEN [type |-> "literal", ann |-> <<>>, value |-> schema.value]
    ELSE IF schema.kind = "ZodUnion"
    THEN [type |-> "union", ann |-> <<>>,
          options |-> [i \in 1..Len(schema.options) |-> serializeZodSchema(schema.options[i])]]
    ELSE IF schema.kind = "ZodIntersection"
    THEN [type |-> "intersection", ann |-> <<>>,
          left |-> serializeZodSchema(schema.left),
          right |-> serializeZodSchema(schema.right)]
    ELSE IF schema.kind = "ZodTuple"
    THEN [type |-> "tuple", ann |-> <<>>,
          items |-> [i \in 1..Len(schema.items) |-> serializeZodSchema(schema.items[i])],
          rest |-> [i \in 1..Len(schema.rest) |-> serializeZodSchema(schema.rest[i])]]
    ELSE IF schema.kind = "ZodRecord"
    THEN [type |-> "record", ann |-> <<>>,
          key |-> serializeZodSchema(schema.keyType),
          value |-> serializeZodSchema(schema.valueType)]
    ELSE IF schema.kind = "ZodMap"
    THEN [type |-> "map", ann |-> <<>>,
          key |-> serializeZodSchema(schema.keyType),
          value |-> serializeZodSchema(schema.valueType)]
    ELSE IF schema.kind = "ZodSet"
    THEN [type |-> "set", ann |-> <<>>, value |-> serializeZodSchema(schema.valueType)]
    ELSE IF schema.kind = "ZodFunction"
    THEN [type |-> "function", ann |-> <<>>, args |-> <<>>, returns |-> UnknownDesc]
    ELSE IF schema.kind = "ZodLazy"
    THEN Desc("lazy")
    ELSE IF schema.kind = "ZodPromise"
    THEN [type |-> "promise", ann |-> <<>>, inner |-> serializeZodSchema(schema.type)]
    \* effects, refinements, transforms and anything else
    ELSE Desc("unknown")

\* the three wrappers of deserializeZodSchema, in the order the code applies them
ApplyWrappers(schema, serialized) ==
    LET s1 == IF GetKey(serialized, "default") # undefined
              THEN ZodDefault(schema, GetKey(serialized, "default"))
              ELSE schema
        s2 == IF HasKey(serialized, "nullable") THEN ZodNullable(s1) ELSE s1
    IN  IF HasKey(serialized, "optional") THEN ZodOptional(s2) ELSE s2

PrimitiveTypes == {PrimitiveKinds[k] : k \in DOMAIN PrimitiveKinds}
KindOfType(type) == CHOOSE k \in DOMAIN PrimitiveKinds : PrimitiveKinds[k] = type

RECURSIVE deserializeBase(_)
deserializeZodSchema(serialized) == ApplyWrappers(deserializeBase(serialized), serialized)
deserializeBase(serialized) ==
    IF serialized.type \in PrimitiveTypes
    THEN Leaf(KindOfType(serialized.type))
    ELSE IF serialized.type = "array"
    THEN ZodArray(deserializeZodSchema(serialized.element))
    ELSE IF serialized.type = "object"
    THEN ZodObject([k \in DOMAIN serialized.shape |-> deserializeZodSchema(serialized.shape[k])])
    ELSE IF serialized.type = "enum"
    THEN ZodEnum(serialized.values)
    ELSE IF serialized.type = "literal"
    THEN ZodLiteral(serialized.value)
    ELSE IF serialized.type = "union"
    THEN ZodUnion([i \in 1..Len(serialized.options) |-> deserializeZodSchema(serialized.options[i])])
    ELSE IF serialized.type = "intersection"
    THEN ZodIntersection(deserializeZodSchema(serialized.left),
                         deserializeZodSchema(serialized.right))
    ELSE IF serialized.type = "tuple"
    THEN ZodTuple([i \in 1..Len(serialized.items) |-> deserializeZodSchema(serialized.items[i])],
                  [i \in 1..Len(serialized.rest) |-> deserializeZodSchema(serialized.rest[i])])
    ELSE IF serialized.type = "record"
    THEN ZodRecord(deserializeZodSchema(serialized.key), deserializeZodSchema(serialized.value))
    ELSE IF serialized.type = "map"
    THEN ZodMap(deserializeZodSchema(serialized.key), deserializeZodSchema(serialized.value))
    ELSE IF serialized.type = "set"
    THEN ZodSet(deserializeZodSchema(serialized.value))
    ELSE IF serialized.type = "function"
    THEN ZodFunction
    \* lazy schemas can't be fully deserialized
    ELSE IF serialized.type = "lazy"
    THEN ZodAny
    ELSE IF serialized.type = "promise"
    THEN ZodPromise(deserializeZodSchema(serialized.inner))
    ELSE ZodUnknown

(***************************************************************************)
(* The serializeZodSchema and deserializeZodSchema of                      *)
(* packages/db/src/graph/zod-serializer.ts: fewer kinds, and a deserializer *)
(* that rebuilds the base schema alone.                                    *)
(***************************************************************************)
RECURSIVE zodSerializer_serializeZodSchema(_)
zodSerializer_serializeZodSchema(schema) ==
    IF schema.kind \in {"ZodString", "ZodNumber", "ZodBoolean", "ZodDate", "ZodBigInt"}
    THEN Desc(PrimitiveKinds[schema.kind])
    ELSE IF schema.kind = "ZodArray"
    THEN [type |-> "array", ann |-> <<>>,
          element |-> zodSerializer_serializeZodSchema(schema.element)]
    ELSE IF schema.kind = "ZodObject"
    THEN [type |-> "object", ann |-> <<>>,
          shape |-> [k \in DOMAIN schema.shape |->
                        zodSerializer_serializeZodSchema(schema.shape[k])]]
    ELSE IF schema.kind = "ZodOptional"
    THEN SetKey(zodSerializer_serializeZodSchema(schema.innerType), "optional", "true")
    ELSE IF schema.kind = "ZodNullable"
    THEN SetKey(zodSerializer_serializeZodSchema(schema.innerType), "nullable", "true")
    ELSE IF schema.kind = "ZodDefault"
    THEN SetKey(zodSerializer_serializeZodSchema(schema.innerType), "default",
                schema.defaultValue)
    ELSE IF schema.kind = "ZodEnum"
    THEN [type |-> "enum", ann |-> <<>>, values |-> schema.values]
    ELSE IF schema.kind = "ZodLiteral"
    THEN [type |-> "literal", ann |-> <<>>, value |-> schema.value]
    ELSE IF schema.kind = "ZodUnion"
    THEN [type |-> "union", ann |-> <<>>,
          options |-> [i \in 1..Len(schema.options) |->
                          zodSerializer_serializeZodSchema(schema.options[i])]]
    ELSE Desc("unknown")

RECURSIVE zodSerializer_deserializeZodSchema(_)
zodSerializer_deserializeZodSchema(serialized) ==
    IF serialized.type \in {"string", "number", "boolean", "date", "bigint"}
    THEN Leaf(KindOfType(serialized.type))
    ELSE IF serialized.type = "array"
    THEN ZodArray(zodSerializer_deserializeZodSchema(serialized.element))
    ELSE IF serialized.type = "object"
    THEN ZodObject([k \in DOMAIN serialized.shape |->
                       zodSerializer_deserializeZodSchema(serialized.shape[k])])
    ELSE IF serialized.type = "enum"
    THEN ZodEnum(serialized.values)
    ELSE IF serialized.type = "literal"
    THEN ZodLiteral(serialized.value)
    ELSE IF serialized.type = "union"
    THEN ZodUnion([i \in 1..Len(serialized.options) |->
                      zodSerializer_deserializeZodSchema(serialized.options[i])])
    ELSE ZodUnknown

(***************************************************************************)
(* JSON.stringify of a serialized schema: the text as its sequence of      *)
(* tokens.  Keys are printed in insertion order (type, the variant's own   *)
(* keys, then the annotations in the order they were set) and a key whose  *)
(* value is undefined is not printed.                                      *)
(***************************************************************************)
\* the order in which the keys of a shape are enumerated (Object.entries)
FieldOrder == <<"a", "b", "completed", "title", "meta", "order", "p", "q">>

InOrder(keys) == SelectSeq(FieldOrder, LAMBDA k : k \in keys)

RECURSIVE Concat(_)
Concat(seqs) == IF seqs = <<>> THEN <<>> ELSE Head(seqs) \o Concat(Tail(seqs))

Member(key, text) == <<",", key, ":">> \o text

RECURSIVE JSONstringify(_)
StringifyAll(list) ==
    <<"[">> \o Concat([i \in 1..Len(list) |-> JSONstringify(list[i]) \o <<",">>]) \o <<"]">>

JSONstringify(d) ==
    <<"{", "type", ":", d.type>>
    \o (IF d.type = "array" THEN Member("element", JSONstringify(d.element))
        ELSE IF d.type = "object"
        THEN Member("shape",
                    <<"{">>
                    \o Concat([i \in 1..Len(InOrder(DOMAIN d.shape)) |->
                                  Member(InOrder(DOMAIN d.shape)[i],
                                         JSONstringify(d.shape[InOrder(DOMAIN d.shape)[i]]))])
                    \o <<"}">>)
        ELSE IF d.type = "enum" THEN Member("values", <<"[">> \o d.values \o <<"]">>)
        ELSE IF d.type = "literal"
        THEN (IF d.value = undefined THEN <<>> ELSE Member("value", <<d.value>>))
        ELSE IF d.type = "union" THEN Member("options", StringifyAll(d.options))
        ELSE IF d.type = "intersection"
        THEN Member("left", JSONstringify(d.left)) \o Member("right", JSONstringify(d.right))
        ELSE IF d.type = "tuple"
        THEN Member("items", StringifyAll(d.items))
             \o (IF d.rest = <<>> THEN <<>> ELSE Member("rest", JSONstringify(d.rest[1])))
        ELSE IF d.type \in {"record", "map"}
        THEN Member("key", JSONstringify(d.key)) \o Member("value", JSONstringify(d.value))
        ELSE IF d.type = "set" THEN Member("value", JSONstringify(d.value))
        ELSE IF d.type = "function"
        THEN Member("args", StringifyAll(d.args)) \o Member("returns", JSONstringify(d.returns))
        ELSE IF d.type = "promise" THEN Member("inner", JSONstringify(d.inner))
        ELSE <<>>)
    \o Concat([i \in 1..Len(d.ann) |->
                  IF d.ann[i][2] = undefined THEN <<>>
                  ELSE Member(d.ann[i][1], <<d.ann[i][2]>>)])
    \o <<"}">>

(***************************************************************************)
(* detectSchemaChanges.                                                    *)
(***************************************************************************)
Added(shape, key) ==
    [type |-> "added", field |-> key,
     required |-> ~Truthy(GetKey(shape[key], "optional")),
     hasDefault |-> Truthy(GetKey(shape[key], "default"))]

Removed(key) == [type |-> "removed", field |-> key]

Changed(shape, key) ==
    [type |-> "changed", field |-> key,
     required |-> ~Truthy(GetKey(shape[key], "optional")),
     hasDefault |-> Truthy(GetKey(shape[key], "default"))]

\* one entry per key, pushed in the order the loop meets the keys
Entries(entry) == [i \in 1..Len(InOrder(DOMAIN entry)) |-> entry[InOrder(DOMAIN entry)[i]]]

\* detectSchemaChanges whose third loop compares the type tags alone
detectSchemaChanges_TypeOnly(oldSchema, newSchema) ==
    IF oldSchema.type # "object" \/ newSchema.type # "object"
    THEN <<>>
    ELSE Entries([k \in {j \in DOMAIN newSchema.shape : j \notin DOMAIN oldSchema.shape} |->
                     Added(newSchema.shape, k)])
         \o Entries([k \in {j \in DOMAIN oldSchema.shape : j \notin DOMAIN newSchema.shape} |->
                     Removed(k)])
         \o Entries([k \in {j \in DOMAIN newSchema.shape :
                        /\ j \in DOMAIN oldSchema.shape
                        /\ oldSchema.shape[j].type # newSchema.shape[j].type} |->
                     Changed(newSchema.shape, k)])

detectSchemaChanges(oldSchema, newSchema) ==
    IF oldSchema.type # "object" \/ newSchema.type # "object"
    THEN <<>>
    ELSE Entries([k \in {j \in DOMAIN newSchema.shape : j \notin DOMAIN oldSchema.shape} |->
                     Added(newSchema.shape, k)])
         \o Entries([k \in {j \in DOMAIN oldSchema.shape : j \notin DOMAIN newSchema.shape} |->
                     Removed(k)])
         \o Entries([k \in {j \in DOMAIN newSchema.shape :
                        /\ j \in DOMAIN oldSchema.shape
                        /\ JSONstringify(oldSchema.shape[j])
                              # JSONstringify(newSchema.shape[j])} |->
                     Changed(newSchema.shape, k)])

(***************************************************************************)
(* schema.safeParse of Zod 3, as far as JSON values reach it.              *)
(***************************************************************************)
Ok(v) == [ok |-> TRUE, value |-> v]
Fail == [ok |-> FALSE, value |-> undefined]

RECURSIVE parseValue(_, _)
\* the nested object {p: 1, q: 1}: every declared field is parsed, undeclared keys
\* are stripped, a key is kept when it was given or its parse produced a value
parseNested(schema, v) ==
    LET Fields(given, r) ==
            IF \E k \in DOMAIN r : ~r[k].ok
            THEN Fail
            ELSE Ok(NestedAtom({k \in DOMAIN r : k \in given \/ r[k].value # undefined}))
    IN  Fields(NestedKeys(v),
               [k \in DOMAIN schema.shape |->
                   parseValue(schema.shape[k],
                              IF k \in NestedKeys(v) THEN "1" ELSE undefined)])

\* parse of one value (a field of the payload)
parseValue(schema, v) ==
    IF schema.kind = "ZodOptional"
    THEN IF v = undefined THEN Ok(undefined) ELSE parseValue(schema.innerType, v)
    ELSE IF schema.kind = "ZodNullable"
    THEN IF v = null THEN Ok(null) ELSE parseValue(schema.innerType, v)
    ELSE IF schema.kind = "ZodDefault"
    THEN parseValue(schema.innerType, IF v = undefined THEN schema.defaultValue ELSE v)
    ELSE IF schema.kind \in {"ZodString", "ZodNumber", "ZodBoolean", "ZodNull", "ZodUndefined"}
    THEN IF typeOf(v) = PrimitiveKinds[schema.kind] THEN Ok(v) ELSE Fail
    ELSE IF schema.kind = "ZodVoid"
    THEN IF v = undefined THEN Ok(v) ELSE Fail
    ELSE IF schema.kind \in {"ZodAny", "ZodUnknown"}
    THEN Ok(v)
    ELSE IF schema.kind = "ZodEnum"
    THEN IF \E i \in 1..Len(schema.values) : schema.values[i] = v THEN Ok(v) ELSE Fail
    ELSE IF schema.kind = "ZodLiteral"
    THEN IF v = schema.value THEN Ok(v) ELSE Fail
    ELSE IF schema.kind = "ZodUnion"
    THEN LET FirstOf(good) ==
                 IF good = {} THEN Fail
                 ELSE parseValue(schema.options[CHOOSE i \in good : \A j \in good : i <= j], v)
         IN  FirstOf({i \in 1..Len(schema.options) : parseValue(schema.options[i], v).ok})
    ELSE IF schema.kind = "ZodIntersection"
    THEN LET Both(l, r) ==
                 IF ~(l.ok /\ r.ok) THEN Fail
                 ELSE IF l.value = r.value THEN l
                 ELSE IF typeOf(l.value) = "object" /\ typeOf(r.value) = "object"
                 THEN Ok(NestedAtom(NestedKeys(l.value) \cup NestedKeys(r.value)))
                 ELSE Fail
         IN  Both(parseValue(schema.left, v), parseValue(schema.right, v))
    ELSE IF schema.kind = "ZodObject"
    THEN IF typeOf(v) = "object" THEN parseNested(schema, v) ELSE Fail
    ELSE IF schema.kind = "ZodRecord"
    THEN IF typeOf(v) = "object"
              /\ (NestedKeys(v) = {} \/ parseValue(schema.valueType, "1") = Ok("1"))
         THEN Ok(v) ELSE Fail
    \* never; date, bigint, symbol, array, tuple, map, set, promise, function:
    \* no JSON value is an instance of these
    ELSE Fail

\* the issues of a failed parse of the payload, one per offending field path
ParseResult(success, data, errors) == [success |-> success, data |-> data, errors |-> errors]

RECURSIVE safeParse(_, _)
\* parse of the payload itself, a JSON object
safeParse(schema, data) ==
    IF schema.kind = "ZodObject"
    THEN LET Fields(r) ==
                 IF \E k \in DOMAIN r : ~r[k].ok
                 THEN ParseResult(FALSE, EmptyObject, {k \in DOMAIN r : ~r[k].ok})
                 ELSE ParseResult(TRUE,
                                  [k \in {j \in DOMAIN r : r[j].value # undefined} |->
                                      r[k].value], {})
         IN  Fields([k \in DOMAIN schema.shape |->
                        parseValue(schema.shape[k],
                                   IF k \in DOMAIN data THEN data[k] ELSE undefined)])
    ELSE IF schema.kind \in {"ZodOptional", "ZodNullable", "ZodDefault"}
    THEN safeParse(schema.innerType, data)
    ELSE IF schema.kind \in {"ZodAny", "ZodUnknown"}
    THEN ParseResult(TRUE, data, {})
    ELSE IF schema.kind = "ZodRecord"
    THEN LET Values(r) ==
                 IF \E k \in DOMAIN r : ~r[k].ok
                 THEN ParseResult(FALSE, EmptyObject, {k \in DOMAIN r : ~r[k].ok})
                 ELSE ParseResult(TRUE, [k \in DOMAIN r |-> r[k].value], {})
         IN  Values([k \in DOMAIN data |-> parseValue(schema.valueType, data[k])])
    ELSE IF schema.kind = "ZodUnion"
    THEN LET FirstOf(good) ==
                 IF good = {} THEN ParseResult(FALSE, EmptyObject, {""})
                 ELSE safeParse(schema.options[CHOOSE i \in good : \A j \in good : i <= j], data)
         IN  FirstOf({i \in 1..Len(schema.options) : safeParse(schema.options[i], data).success})
    ELSE IF schema.kind = "ZodIntersection"
    THEN LET Both(l, r) ==
                 IF l.success /\ r.success
                    /\ \A k \in (DOMAIN l.data) \cap (DOMAIN r.data) : l.data[k] = r.data[k]
                 THEN ParseResult(TRUE, Spread(l.data, r.data), {})
                 ELSE ParseResult(FALSE, EmptyObject, l.errors \cup r.errors \cup {""})
         IN  Both(safeParse(schema.left, data), safeParse(schema.right, data))
    \* every other schema rejects an object
    ELSE ParseResult(FALSE, EmptyObject, {""})

(***************************************************************************)
(* validator: validateData, applyDefaults, getDefaultValue.                *)
(***************************************************************************)
\* getDefaultValue without the unwrapping of optional and nullable
getDefaultValue_NoUnwrap(schema) ==
    IF schema.kind = "ZodDefault" THEN schema.defaultValue ELSE undefined

RECURSIVE getDefaultValue(_)
getDefaultValue(schema) ==
    IF schema.kind = "ZodDefault" THEN schema.defaultValue
    ELSE IF schema.kind = "ZodOptional" THEN getDefaultValue(schema.innerType)
    ELSE IF schema.kind = "ZodNullable" THEN getDefaultValue(schema.innerType)
    ELSE undefined

applyDefaults(data, schema) ==
    IF schema.kind = "ZodObject"
    THEN [k \in (DOMAIN data) \cup
                {j \in DOMAIN schema.shape :
                    j \notin DOMAIN data /\ getDefaultValue(schema.shape[j]) # undefined} |->
             IF k \in DOMAIN data THEN data[k] ELSE getDefaultValue(schema.shape[k])]
    ELSE data

\* the returned { success, data, errors }; defined = FALSE stands for data: undefined
Validation(success, defined, data, errors) ==
    [success |-> success, defined |-> defined, data |-> data, errors |-> errors]

validateData(data, schema, mode) ==
    LET Return(processedData, result) ==
            IF ~result.success
            THEN IF mode = "strict"
                 THEN Validation(FALSE, TRUE, processedData, result.errors)
                 \* loose mode warns and falls through to the common return, whose
                 \* data is result.data: undefined after a failed safeParse
                 ELSE Validation(TRUE, FALSE, EmptyObject, result.errors)
            ELSE Validation(TRUE, TRUE, result.data, {})
        Parse(processedData) == Return(processedData, safeParse(schema, processedData))
    IN  Parse(IF mode = "loose" THEN applyDefaults(data, schema) ELSE data)

\* the reason of an unsafe judgment: which of the two messages, and what it names
Reason(message, field, elementCount) ==
    [message |-> message, field |-> field, elementCount |-> elementCount]

\* the judgment of the first entry the loop returns on, safe when there is none
Judgment(changes, unsafe, elementCount) ==
    IF unsafe = {}
    THEN [safe |-> TRUE]
    ELSE [safe |-> FALSE,
          reason |-> Reason(IF changes[CHOOSE i \in unsafe : \A j \in unsafe : i <= j].type
                                  = "added"
                            THEN "Cannot add required field"
                            ELSE "Cannot make field required",
                            changes[CHOOSE i \in unsafe : \A j \in unsafe : i <= j].field,
                            elementCount)]

\* isSchemaChangeSafe that looks at the added entries alone
isSchemaChangeSafe_AddedOnly(changes, elementCount) ==
    IF elementCount = 0
    THEN [safe |-> TRUE]
    ELSE Judgment(changes,
                  {i \in 1..Len(changes) :
                      /\ changes[i].type = "added"
                      /\ changes[i].required
                      /\ ~changes[i].hasDefault},
                  elementCount)

isSchemaChangeSafe(changes, elementCount) ==
    IF elementCount = 0
    THEN [safe |-> TRUE]
    ELSE Judgment(changes,
                  {i \in 1..Len(changes) :
                      /\ changes[i].type \in {"added", "changed"}
                      /\ changes[i].required
                      /\ ~changes[i].hasDefault},
                  elementCount)

validateElementData(data, elementTypeSchema, mode) == validateData(data, elementTypeSchema, mode)
validateLinkData(data, linkTypeSchema, mode) == validateData(data, linkTypeSchema, mode)

(***************************************************************************)
(* The four tables and the callers' inputs.                                *)
(***************************************************************************)
VARIABLES
    elementType,    \* element_type rows: id -> [schema, parentTypes]
    linkType,       \* link_type rows: id -> [fromType, toType, schema, parentTypes]
    element,        \* element rows: id -> [typeId, data]
    link,           \* link rows: id -> [fromId, toId, linkTypeId, data]
    elementUuids,   \* element ids handed out so far by crypto.randomUUID()
    linkUuids,      \* link ids handed out so far by crypto.randomUUID()
    last            \* the last call: its name, arguments and outcome

tables == <<elementType, linkType, element, link>>
vars == <<elementType, linkType, element, link, elementUuids, linkUuids, last>>

ElementTypeIds == {"task"}
LinkTypeIds == {"subTask"}
ElementIds == 1..MaxElements
LinkIds == 1..MaxLinks

Bool == ZodBoolean
Meta == ZodObject([p |-> ZodOptional(ZodNumber), q |-> ZodOptional(ZodNumber)])

\* the z.object schemas a caller declares for an element type
ElementSchemas ==
    { ZodObject([title |-> ZodString]),
      ZodObject([title |-> ZodString, completed |-> ZodDefault(Bool, "false")]),
      ZodObject([title |-> ZodString, completed |-> ZodOptional(ZodDefault(Bool, "false"))]),
      ZodObject([title |-> ZodOptional(ZodNumber), meta |-> ZodOptional(Meta)]) }

\* the z.object schemas a caller declares for a link type
LinkSchemas ==
    { ZodObject(EmptyObject),
      ZodObject([order |-> ZodNumber]) }

\* the payloads a caller passes to create and update
Payloads ==
    { EmptyObject,
      [title |-> "'a'"],
      [title |-> "'b'", completed |-> "true"],
      [title |-> "1", meta |-> "{p}"],
      [meta |-> "{q}"] }

LinkPayloads == { EmptyObject, [order |-> "1"] }

NoId == 0

\* what a call leaves behind for its caller
Outcome(op, status, id, typeId, input, defined, data, ids) ==
    [op |-> op, status |-> status, id |-> id, typeId |-> typeId, input |-> input,
     defined |-> defined, data |-> data, ids |-> ids]

Init ==
    /\ elementType = EmptyObject
    /\ linkType = EmptyObject
    /\ element = EmptyObject
    /\ link = EmptyObject
    /\ elementUuids = 0
    /\ linkUuids = 0
    /\ last = Outcome("none", "ok", NoId, "", EmptyObject, FALSE, EmptyObject, {})

Insert(table, id, row) == [k \in (DOMAIN table) \cup {id} |-> IF k = id THEN row ELSE table[k]]
Delete(table, ids) == [k \in (DOMAIN table) \ ids |-> table[k]]

(***************************************************************************)
(* Type registry: element-type.ts, link-type.ts.                           *)
(***************************************************************************)
\* a second insert of the same id violates the primary key and writes nothing
createElementType(id, schema, parentTypes) ==
    /\ IF id \in DOMAIN elementType
       THEN /\ UNCHANGED elementType
            /\ last' = Outcome("createElementType", "WriteFailed", NoId, id, EmptyObject,
                               FALSE, EmptyObject, {})
       ELSE /\ elementType' = Insert(elementType, id,
                                     [schema |-> serializeZodSchema(schema),
                                      parentTypes |-> parentTypes])
            /\ last' = Outcome("createElementType", "ok", NoId, id, EmptyObject,
                               FALSE, EmptyObject, {})
    /\ UNCHANGED <<linkType, element, link, elementUuids, linkUuids>>

\* UPDATE ... WHERE id: no row, no change
updateElementType(id, schema) ==
    /\ elementType' = [t \in DOMAIN elementType |->
                          IF t = id
                          THEN [elementType[t] EXCEPT !.schema = serializeZodSchema(schema)]
                          ELSE elementType[t]]
    /\ last' = Outcome("updateElementType", "ok", NoId, id, EmptyObject, FALSE, EmptyObject, {})
    /\ UNCHANGED <<linkType, element, link, elementUuids, linkUuids>>

deleteElementType(id) ==
    /\ elementType' = Delete(elementType, {id})
    /\ last' = Outcome("deleteElementType", "ok", NoId, id, EmptyObject, FALSE, EmptyObject, {})
    /\ UNCHANGED <<linkType, element, link, elementUuids, linkUuids>>

createLinkType(id, fromType, toType, schema, parentTypes) ==
    /\ IF id \in DOMAIN linkType
       THEN /\ UNCHANGED linkType
            /\ last' = Outcome("createLinkType", "WriteFailed", NoId, id, EmptyObject,
                               FALSE, EmptyObject, {})
       ELSE /\ linkType' = Insert(linkType, id,
                                  [fromType |-> fromType, toType |-> toType,
                                   schema |-> serializeZodSchema(schema),
                                   parentTypes |-> parentTypes])
            /\ last' = Outcome("createLinkType", "ok", NoId, id, EmptyObject,
                               FALSE, EmptyObject, {})
    /\ UNCHANGED <<elementType, element, link, elementUuids, linkUuids>>

updateLinkType(id, schema) ==
    /\ linkType' = [t \in DOMAIN linkType |->
                       IF t = id
                       THEN [linkType[t] EXCEPT !.schema = serializeZodSchema(schema)]
                       ELSE linkType[t]]
    /\ last' = Outcome("updateLinkType", "ok", NoId, id, EmptyObject, FALSE, EmptyObject, {})
    /\ UNCHANGED <<elementType, element, link, elementUuids, linkUuids>>

deleteLinkType(id) ==
    /\ linkType' = Delete(linkType, {id})
    /\ last' = Outcome("deleteLinkType", "ok", NoId, id, EmptyObject, FALSE, EmptyObject, {})
    /\ UNCHANGED <<elementType, element, link, elementUuids, linkUuids>>

(***************************************************************************)
(* Element store: element.ts.                                              *)
(***************************************************************************)
Failed(op, status, id, typeId, input) ==
    /\ last' = Outcome(op, status, id, typeId, input, FALSE, EmptyObject, {})
    /\ UNCHANGED <<elementType, linkType, element, link, elementUuids, linkUuids>>

\* createElement with the insert moved ahead of the validation
createElement_InsertBeforeValidate(typeId, data) ==
    IF typeId \notin DOMAIN elementType
    THEN Failed("createElement", "TypeNotFound", NoId, typeId, data)
    ELSE LET Write(validation) ==
                 /\ elementUuids < MaxElements
                 /\ elementUuids' = elementUuids + 1
                 /\ element' = Insert(element, elementUuids + 1,
                                      [typeId |-> typeId, data |-> validation.data])
                 /\ last' = Outcome("createElement",
                                    IF validation.success THEN "ok" ELSE "ValidationFailed",
                                    elementUuids + 1, typeId, data, TRUE, validation.data, {})
                 /\ UNCHANGED <<elementType, linkType, link, linkUuids>>
         IN  Write(validateElementData(data,
                                       deserializeZodSchema(elementType[typeId].schema),
                                       "strict"))

createElement(typeId, data) ==
    IF typeId \notin DOMAIN elementType
    THEN Failed("createElement", "TypeNotFound", NoId, typeId, data)
    ELSE LET Write(validation) ==
                 IF ~validation.success
                 THEN Failed("createElement", "ValidationFailed", NoId, typeId, data)
                 ELSE /\ elementUuids < MaxElements
                      /\ elementUuids' = elementUuids + 1
                      /\ element' = Insert(element, elementUuids + 1,
                                           [typeId |-> typeId, data |-> validation.data])
                      /\ last' = Outcome("createElement", "ok", elementUuids + 1, typeId, data,
                                         TRUE, validation.data, {})
                      /\ UNCHANGED <<elementType, linkType, link, linkUuids>>
         IN  Write(validateElementData(data,
                                       deserializeZodSchema(elementType[typeId].schema),
                                       "strict"))

\* the row getElement returns: its data replaced by the loose validation's data
\* when the row's type is still registered
LooseRow(row) ==
    IF row.typeId \in DOMAIN elementType
    THEN LET Row(validation) ==
                 [typeId |-> row.typeId, defined |-> validation.defined,
                  data |-> validation.data]
         IN  Row(validateElementData(row.data,
                                     deserializeZodSchema(elementType[row.typeId].schema),
                                     "loose"))
    ELSE [typeId |-> row.typeId, defined |-> TRUE, data |-> row.data]

\* getElement that writes the loose validation's data back to the row
getElement_Persist(id) ==
    IF id \notin DOMAIN element
    THEN Failed("getElement", "null", id, "", EmptyObject)
    ELSE LET Return(result) ==
                 /\ last' = Outcome("getElement", "ok", id, result.typeId, EmptyObject,
                                    result.defined, result.data, {})
                 /\ element' = [element EXCEPT ![id].data = result.data]
                 /\ UNCHANGED <<elementType, linkType, link, elementUuids, linkUuids>>
         IN  Return(LooseRow(element[id]))

getElement(id) ==
    IF id \notin DOMAIN element
    THEN Failed("getElement", "null", id, "", EmptyObject)
    ELSE LET Return(result) ==
                 /\ last' = Outcome("getElement", "ok", id, result.typeId, EmptyObject,
                                    result.defined, result.data, {})
                 /\ UNCHANGED <<elementType, linkType, element, link, elementUuids, linkUuids>>
         IN  Return(LooseRow(element[id]))

\* updateElement whose UPDATE has no WHERE clause: every row takes the data
updateElement_EveryRow(id, data) ==
    IF id \notin DOMAIN element
    THEN Failed("updateElement", "NotFound", id, "", data)
    ELSE LET Write(existing, validation) ==
                 IF ~validation.success
                 THEN Failed("updateElement", "ValidationFailed", id, existing.typeId, data)
                 ELSE /\ element' = [e \in DOMAIN element |->
                                        [element[e] EXCEPT !.data = validation.data]]
                      /\ last' = Outcome("updateElement", "ok", id, existing.typeId, data,
                                         TRUE, validation.data, {})
                      /\ UNCHANGED <<elementType, linkType, link, elementUuids, linkUuids>>
             Merge(existing) ==
                 IF existing.typeId \notin DOMAIN elementType
                 THEN Failed("updateElement", "TypeNotFound", id, existing.typeId, data)
                 ELSE Write(existing,
                            validateElementData(
                                Spread(existing.data, data),
                                deserializeZodSchema(elementType[existing.typeId].schema),
                                "strict"))
         IN  Merge(LooseRow(element[id]))

updateElement(id, data) ==
    IF id \notin DOMAIN element
    THEN Failed("updateElement", "NotFound", id, "", data)
    ELSE LET Write(existing, validation) ==
                 IF ~validation.success
                 THEN Failed("updateElement", "ValidationFailed", id, existing.typeId, data)
                 ELSE /\ element' = [element EXCEPT ![id].data = validation.data]
                      /\ last' = Outcome("updateElement", "ok", id, existing.typeId, data,
                                         TRUE, validation.data, {})
                      /\ UNCHANGED <<elementType, linkType, link, elementUuids, linkUuids>>
             \* mergedData = {...existing.data, ...data}: spreading undefined adds no key
             Merge(existing) ==
                 IF existing.typeId \notin DOMAIN elementType
                 THEN Failed("updateElement", "TypeNotFound", id, existing.typeId, data)
                 ELSE Write(existing,
                            validateElementData(
                                Spread(existing.data, data),
                                deserializeZodSchema(elementType[existing.typeId].schema),
                                "strict"))
         IN  Merge(LooseRow(element[id]))

\* DELETE FROM element WHERE id: the link table declares no foreign key
deleteElement(id) ==
    /\ element' = Delete(element, {id})
    /\ last' = Outcome("deleteElement", "ok", id, "", EmptyObject, FALSE, EmptyObject, {})
    /\ UNCHANGED <<elementType, linkType, link, elementUuids, linkUuids>>

\* the rows of the type, each with its data replaced by the loose validation's
findElementsByType(typeId) ==
    /\ last' = [op |-> "findElementsByType", status |-> "ok", id |-> NoId, typeId |-> typeId,
                input |-> EmptyObject, defined |-> FALSE, data |-> EmptyObject,
                ids |-> {id \in DOMAIN element : element[id].typeId = typeId},
                rows |-> [id \in {i \in DOMAIN element : element[i].typeId = typeId} |->
                             LooseRow(element[id])]]
    /\ UNCHANGED <<elementType, linkType, element, link, elementUuids, linkUuids>>

(***************************************************************************)
(* Link store: link.ts.                                                    *)
(***************************************************************************)
\* createLink that resolves the link type before the endpoints
createLink_TypeFirst(fromId, toId, linkTypeId, data) ==
    IF linkTypeId \notin DOMAIN linkType
    THEN Failed("createLink", "TypeNotFound", NoId, linkTypeId, data)
    ELSE IF fromId \notin DOMAIN element
    THEN Failed("createLink", "SourceNotFound", fromId, linkTypeId, data)
    ELSE IF toId \notin DOMAIN element
    THEN Failed("createLink", "TargetNotFound", toId, linkTypeId, data)
    ELSE LET Write(validation) ==
                 IF ~validation.success
                 THEN Failed("createLink", "ValidationFailed", NoId, linkTypeId, data)
                 ELSE /\ linkUuids < MaxLinks
                      /\ linkUuids' = linkUuids + 1
                      /\ link' = Insert(link, linkUuids + 1,
                                        [fromId |-> fromId, toId |-> toId,
                                         linkTypeId |-> linkTypeId, data |-> validation.data])
                      /\ last' = Outcome("createLink", "ok", linkUuids + 1, linkTypeId, data,
                                         TRUE, validation.data, {})
                      /\ UNCHANGED <<elementType, linkType, element, elementUuids>>
         IN  Write(validateLinkData(data, deserializeZodSchema(linkType[linkTypeId].schema),
                                    "strict"))

createLink(fromId, toId, linkTypeId, data) ==
    IF fromId \notin DOMAIN element
    THEN Failed("createLink", "SourceNotFound", fromId, linkTypeId, data)
    ELSE IF toId \notin DOMAIN element
    THEN Failed("createLink", "TargetNotFound", toId, linkTypeId, data)
    ELSE IF linkTypeId \notin DOMAIN linkType
    THEN Failed("createLink", "TypeNotFound", NoId, linkTypeId, data)
    ELSE LET Write(validation) ==
                 IF ~validation.success
                 THEN Failed("createLink", "ValidationFailed", NoId, linkTypeId, data)
                 ELSE /\ linkUuids < MaxLinks
                      /\ linkUuids' = linkUuids + 1
                      /\ link' = Insert(link, linkUuids + 1,
                                        [fromId |-> fromId, toId |-> toId,
                                         linkTypeId |-> linkTypeId, data |-> validation.data])
                      /\ last' = Outcome("createLink", "ok", linkUuids + 1, linkTypeId, data,
                                         TRUE, validation.data, {})
                      /\ UNCHANGED <<elementType, linkType, element, elementUuids>>
         IN  Write(validateLinkData(data, deserializeZodSchema(linkType[linkTypeId].schema),
                                    "strict"))

LooseLink(row) ==
    IF row.linkTypeId \in DOMAIN linkType
    THEN LET Row(validation) ==
                 [linkTypeId |-> row.linkTypeId, defined |-> validation.defined,
                  data |-> validation.data]
         IN  Row(validateLinkData(row.data,
                                  deserializeZodSchema(linkType[row.linkTypeId].schema),
                                  "loose"))
    ELSE [linkTypeId |-> row.linkTypeId, defined |-> TRUE, data |-> row.data]

getLink(id) ==
    IF id \notin DOMAIN link
    THEN Failed("getLink", "null", id, "", EmptyObject)
    ELSE LET Return(result) ==
                 /\ last' = Outcome("getLink", "ok", id, result.linkTypeId, EmptyObject,
                                    result.defined, result.data, {})
                 /\ UNCHANGED <<elementType, linkType, element, link, elementUuids, linkUuids>>
         IN  Return(LooseLink(link[id]))

\* updateLink that validates and stores the supplied data spread over the stored data
updateLink_Merge(id, data) ==
    IF id \notin DOMAIN link
    THEN Failed("updateLink", "NotFound", id, "", data)
    ELSE LET Write(existing, validation) ==
                 IF ~validation.success
                 THEN Failed("updateLink", "ValidationFailed", id, existing.linkTypeId, data)
                 ELSE /\ link' = [link EXCEPT ![id].data = validation.data]
                      /\ last' = Outcome("updateLink", "ok", id, existing.linkTypeId, data,
                                         TRUE, validation.data, {})
                      /\ UNCHANGED <<elementType, linkType, element, elementUuids, linkUuids>>
             Check(existing) ==
                 IF existing.linkTypeId \notin DOMAIN linkType
                 THEN Failed("updateLink", "TypeNotFound", id, existing.linkTypeId, data)
                 ELSE Write(existing,
                            validateLinkData(
                                Spread(existing.data, data),
                                deserializeZodSchema(linkType[existing.linkTypeId].schema),
                                "strict"))
         IN  Check(LooseLink(link[id]))

updateLink(id, data) ==
    IF id \notin DOMAIN link
    THEN Failed("updateLink", "NotFound", id, "", data)
    ELSE LET Write(existing, validation) ==
                 IF ~validation.success
                 THEN Failed("updateLink", "ValidationFailed", id, existing.linkTypeId, data)
                 ELSE /\ link' = [link EXCEPT ![id].data = validation.data]
                      /\ last' = Outcome("updateLink", "ok", id, existing.linkTypeId, data,
                                         TRUE, validation.data, {})
                      /\ UNCHANGED <<elementType, linkType, element, elementUuids, linkUuids>>
             \* the supplied data alone is validated: no merge with existing.data
             Check(existing) ==
                 IF existing.linkTypeId \notin DOMAIN linkType
                 THEN Failed("updateLink", "TypeNotFound", id, existing.linkTypeId, data)
                 ELSE Write(existing,
                            validateLinkData(
                                data,
                                deserializeZodSchema(linkType[existing.linkTypeId].schema),
                                "strict"))
         IN  Check(LooseLink(link[id]))

deleteLink(id) ==
    /\ link' = Delete(link, {id})
    /\ last' = Outcome("deleteLink", "ok", id, "", EmptyObject, FALSE, EmptyObject, {})
    /\ UNCHANGED <<elementType, linkType, element, elementUuids, linkUuids>>

\* linkTypeId = "" stands for the omitted optional argument
findLinksFrom(elementId, linkTypeId) ==
    /\ last' = [op |-> "findLinksFrom", status |-> "ok", id |-> elementId,
                typeId |-> linkTypeId, input |-> EmptyObject, defined |-> FALSE,
                data |-> EmptyObject,
                ids |-> {id \in DOMAIN link :
                            /\ link[id].fromId = elementId
                            /\ (linkTypeId # "" => link[id].linkTypeId = linkTypeId)},
                rows |-> [id \in {i \in DOMAIN link :
                                     /\ link[i].fromId = elementId
                                     /\ (linkTypeId # "" => link[i].linkTypeId = linkTypeId)} |->
                             LooseLink(link[id])]]
    /\ UNCHANGED <<elementType, linkType, element, link, elementUuids, linkUuids>>

findLinksTo(elementId, linkTypeId) ==
    /\ last' = [op |-> "findLinksTo", status |-> "ok", id |-> elementId,
                typeId |-> linkTypeId, input |-> EmptyObject, defined |-> FALSE,
                data |-> EmptyObject,
                ids |-> {id \in DOMAIN link :
                            /\ link[id].toId = elementId
                            /\ (linkTypeId # "" => link[id].linkTypeId = linkTypeId)},
                rows |-> [id \in {i \in DOMAIN link :
                                     /\ link[i].toId = elementId
                                     /\ (linkTypeId # "" => link[i].linkTypeId = linkTypeId)} |->
                             LooseLink(link[id])]]
    /\ UNCHANGED <<elementType, linkType, element, link, elementUuids, linkUuids>>

ParentTypeLists == { <<>> }

\* the inputs of the callers of Spec: one element schema, payloads that pass and fail
RefSchemas == { ZodObject([title |-> ZodString]) }
RefPayloads == { EmptyObject, [title |-> "'a'"] }
RefLinkPayloads == { EmptyObject }

\* every operation of the registry and of the store, called in any order
Next ==
    \/ \E id \in ElementTypeIds, schema \in RefSchemas, parentTypes \in ParentTypeLists :
          createElementType(id, schema, parentTypes)
    \/ \E id \in ElementTypeIds, schema \in RefSchemas : updateElementType(id, schema)
    \/ \E id \in ElementTypeIds : deleteElementType(id)
    \/ \E id \in LinkTypeIds, schema \in LinkSchemas, parentTypes \in ParentTypeLists :
          createLinkType(id, "task", "task", schema, parentTypes)
    \/ \E id \in LinkTypeIds, schema \in LinkSchemas : updateLinkType(id, schema)
    \/ \E id \in LinkTypeIds : deleteLinkType(id)
    \/ \E typeId \in ElementTypeIds, data \in RefPayloads : createElement(typeId, data)
    \/ \E id \in ElementIds : getElement(id)
    \/ \E id \in ElementIds, data \in RefPayloads : updateElement(id, data)
    \/ \E id \in ElementIds : deleteElement(id)
    \/ \E typeId \in ElementTypeIds : findElementsByType(typeId)
    \/ \E fromId \in ElementIds, toId \in ElementIds, linkTypeId \in LinkTypeIds,
          data \in RefLinkPayloads : createLink(fromId, toId, linkTypeId, data)
    \/ \E id \in LinkIds : getLink(id)
    \/ \E id \in LinkIds, data \in RefLinkPayloads : updateLink(id, data)
    \/ \E id \in LinkIds : deleteLink(id)
    \/ \E elementId \in ElementIds, linkTypeId \in LinkTypeIds \cup {""} :
          findLinksFrom(elementId, linkTypeId)
    \/ \E elementId \in ElementIds, linkTypeId \in LinkTypeIds \cup {""} :
          findLinksTo(elementId, linkTypeId)

Spec == Init /\ [][Next]_vars

\* the element side alone, with schemas that evolve and payloads of every shape
NextData ==
    \/ \E id \in ElementTypeIds, schema \in ElementSchemas, parentTypes \in ParentTypeLists :
          createElementType(id, schema, parentTypes)
    \/ \E id \in ElementTypeIds, schema \in ElementSchemas : updateElementType(id, schema)
    \/ \E id \in ElementTypeIds : deleteElementType(id)
    \/ \E typeId \in ElementTypeIds, data \in Payloads : createElement(typeId, data)
    \/ \E id \in ElementIds : getElement(id)
    \/ \E id \in ElementIds, data \in Payloads : updateElement(id, data)
    \/ \E id \in ElementIds : deleteElement(id)
    \/ \E typeId \in ElementTypeIds : findElementsByType(typeId)

SpecData == Init /\ [][NextData]_vars

(***************************************************************************)
(* The link side with data: link types whose schema has a key, optional or *)
(* required, and links created and updated with and without it.            *)
(***************************************************************************)
LinkDataSchemas ==
    { ZodObject([order |-> ZodOptional(ZodNumber)]),
      ZodObject([order |-> ZodNumber]) }

NextLink ==
    \/ \E id \in ElementTypeIds, schema \in RefSchemas, parentTypes \in ParentTypeLists :
          createElementType(id, schema, parentTypes)
    \/ \E typeId \in ElementTypeIds, data \in RefPayloads : createElement(typeId, data)
    \/ \E id \in LinkTypeIds, schema \in LinkDataSchemas, parentTypes \in ParentTypeLists :
          createLinkType(id, "task", "task", schema, parentTypes)
    \/ \E id \in LinkTypeIds, schema \in LinkDataSchemas : updateLinkType(id, schema)
    \/ \E fromId \in ElementIds, toId \in ElementIds, linkTypeId \in LinkTypeIds,
          data \in LinkPayloads : createLink(fromId, toId, linkTypeId, data)
    \/ \E id \in LinkIds : getLink(id)
    \/ \E id \in LinkIds, data \in LinkPayloads : updateLink(id, data)
    \/ \E id \in LinkIds : deleteLink(id)

SpecLink == Init /\ [][NextLink]_vars

(***************************************************************************)
(* The serializer, the validator and the change detector called on their   *)
(* own: a caller declares a schema and passes it through them.             *)
(***************************************************************************)
\* one schema of every kind the serializers tell apart
BaseSchemas ==
    { ZodString, ZodNumber, ZodBoolean, Leaf("ZodDate"), Leaf("ZodBigInt"),
      Leaf("ZodSymbol"), Leaf("ZodUndefined"), Leaf("ZodNull"), Leaf("ZodVoid"),
      ZodAny, ZodUnknown, Leaf("ZodNever"),
      ZodArray(ZodString),
      ZodObject([a |-> ZodString]),
      ZodEnum(<<"'a'", "'b'">>),
      ZodLiteral("'a'"),
      ZodUnion(<<ZodString, ZodNumber>>),
      ZodIntersection(ZodObject([p |-> ZodNumber]), ZodObject([q |-> ZodNumber])),
      ZodTuple(<<ZodString>>, <<>>),
      ZodTuple(<<ZodString>>, <<ZodNumber>>),
      ZodRecord(ZodString, ZodNumber),
      ZodMap(ZodString, ZodNumber),
      ZodSet(ZodString),
      ZodFunction, ZodLazy, ZodPromise(ZodString), ZodEffects }

DefaultValues == {"false", "0", "'a'", null}

\* .default(v) takes a value of the schema's own input type
AcceptedDefaults(schema) == {v \in DefaultValues : parseValue(schema, v).ok}

\* the schemas with up to n of .optional(), .nullable(), .default(v) stacked on them
RECURSIVE Wrapped(_, _)
Wrapped(schemas, n) ==
    IF n = 0 THEN schemas
    ELSE schemas
         \cup {ZodOptional(s) : s \in Wrapped(schemas, n - 1)}
         \cup {ZodNullable(s) : s \in Wrapped(schemas, n - 1)}
         \cup UNION {{ZodDefault(s, v) : v \in AcceptedDefaults(s)} :
                        s \in Wrapped(schemas, n - 1)}

\* the fields of the two-field objects that successive versions of a type declare
VersionFields ==
    { ZodString, ZodNumber, ZodOptional(ZodString),
      ZodNullable(ZodOptional(ZodString)), ZodOptional(ZodNullable(ZodString)),
      ZodDefault(ZodBoolean, "false"), ZodDefault(ZodString, "'a'") }

VersionSchemas ==
    { ZodString, ZodObject(EmptyObject) }
    \cup {ZodObject([a |-> f]) : f \in VersionFields}
    \cup {ZodObject([b |-> f]) : f \in VersionFields}
    \cup {ZodObject([a |-> f, b |-> g]) : f \in VersionFields, g \in {ZodString, ZodNumber}}

Schemas ==
    Wrapped(BaseSchemas, MaxWrap)
    \cup {ZodObject([completed |-> f]) : f \in Wrapped({ZodBoolean}, MaxWrap)}
    \cup VersionSchemas

SchemaPayloads ==
    { EmptyObject, [completed |-> "true"], [completed |-> null], [a |-> "'a'"] }

Modules == {"part_013", "zod-serializer.ts"}

InitSchema ==
    /\ elementType = EmptyObject
    /\ linkType = EmptyObject
    /\ element = EmptyObject
    /\ link = EmptyObject
    /\ elementUuids = 0
    /\ linkUuids = 0
    /\ last \in {[op |-> "z", schema |-> s] : s \in Schemas}

\* serializeZodSchema(schema) of either module; of holds the descriptor the
\* schema was deserialized from, if it was
CallSerialize(module) ==
    /\ last.op \in {"z", "deserializeZodSchema"}
    /\ last.op = "deserializeZodSchema" => last.module = module
    /\ last' = [op |-> "serializeZodSchema", module |-> module, schema |-> last.schema,
                serialized |-> IF module = "part_013"
                               THEN serializeZodSchema(last.schema)
                               ELSE zodSerializer_serializeZodSchema(last.schema),
                of |-> IF last.op = "deserializeZodSchema" THEN <<last.serialized>> ELSE <<>>]
    /\ UNCHANGED <<elementType, linkType, element, link, elementUuids, linkUuids>>

\* deserializeZodSchema(serialized) of the module that serialized it
CallDeserialize ==
    /\ last.op = "serializeZodSchema"
    /\ last' = [op |-> "deserializeZodSchema", module |-> last.module,
                serialized |-> last.serialized,
                schema |-> IF last.module = "part_013"
                           THEN deserializeZodSchema(last.serialized)
                           ELSE zodSerializer_deserializeZodSchema(last.serialized)]
    /\ UNCHANGED <<elementType, linkType, element, link, elementUuids, linkUuids>>

\* validateData(data, schema, mode) with the schema just rebuilt from a descriptor
CallValidateData(data, mode) ==
    /\ last.op = "deserializeZodSchema"
    /\ last.module = "part_013"
    /\ last' = [op |-> "validateData", serialized |-> last.serialized, schema |-> last.schema,
                data |-> data, mode |-> mode,
                result |-> validateData(data, last.schema, mode)]
    /\ UNCHANGED <<elementType, linkType, element, link, elementUuids, linkUuids>>

\* detectSchemaChanges(oldSchema, newSchema): the descriptor just serialized
\* against the one of the next version of the schema
CallDetectSchemaChanges(schema) ==
    /\ last.op = "serializeZodSchema"
    /\ last.module = "part_013"
    /\ last' = [op |-> "detectSchemaChanges", oldSchema |-> last.serialized,
                newSchema |-> serializeZodSchema(schema),
                changes |-> detectSchemaChanges(last.serialized, serializeZodSchema(schema))]
    /\ UNCHANGED <<elementType, linkType, element, link, elementUuids, linkUuids>>

\* isSchemaChangeSafe(changes, elementCount) on the changes just detected
CallIsSchemaChangeSafe(elementCount) ==
    /\ last.op = "detectSchemaChanges"
    /\ last' = [op |-> "isSchemaChangeSafe", oldSchema |-> last.oldSchema,
                newSchema |-> last.newSchema, changes |-> last.changes,
                elementCount |-> elementCount,
                result |-> isSchemaChangeSafe(last.changes, elementCount)]
    /\ UNCHANGED <<elementType, linkType, element, link, elementUuids, linkUuids>>

\* the payloads of the records stored under the old version of a type
StoredPayloads ==
    { EmptyObject, [a |-> "'a'"], [a |-> "1"], [a |-> "'a'", b |-> "1"], [b |-> "'b'"] }

\* a record written under the old descriptor (strict), read back under the new
\* one (loose), and written again as read (strict)
CallReadStored(data) ==
    /\ last.op = "isSchemaChangeSafe"
    /\ last.oldSchema.type = "object"
    /\ last.newSchema.type = "object"
    /\ LET Reread(written, read) ==
               last' = [op |-> "readStored", oldSchema |-> last.oldSchema,
                        newSchema |-> last.newSchema, changes |-> last.changes,
                        elementCount |-> last.elementCount, result |-> last.result,
                        data |-> data, written |-> written, read |-> read,
                        reread |-> validateData(read.data,
                                                deserializeZodSchema(last.newSchema),
                                                "strict")]
           Read(written) ==
               Reread(written,
                      validateData(written.data, deserializeZodSchema(last.newSchema),
                                   "loose"))
       IN  Read(validateData(data, deserializeZodSchema(last.oldSchema), "strict"))
    /\ UNCHANGED <<elementType, linkType, element, link, elementUuids, linkUuids>>

NextSchema ==
    \/ \E elementCount \in 0..MaxCount : CallIsSchemaChangeSafe(elementCount)
    \/ \E data \in StoredPayloads : CallReadStored(data)
    \/ \E module \in Modules : CallSerialize(module)
    \/ CallDeserialize
    \/ \E data \in SchemaPayloads, mode \in {"strict", "loose"} : CallValidateData(data, mode)
    \/ \E schema \in VersionSchemas : CallDetectSchemaChanges(schema)

SpecSchema == InitSchema /\ [][NextSchema]_vars

(***************************************************************************)
(* The sync tool: scripts/sync-graph-types.ts and its JavaScript twin      *)
(* (part_016).  main() starts syncElementTypes and syncLinkTypes together  *)
(* (Promise.all), reports, prunes when asked to, and exits.  `last` holds  *)
(* the run: its arguments, the position of main, the two results and what  *)
(* the prune has removed so far.  The store is not called during a run.    *)
(***************************************************************************)
ElementTypeDef(id, schema) == [id |-> id, schema |-> schema, parentTypes |-> <<>>]

LinkTypeDef(id, fromType, toType, schema) ==
    [id |-> id, fromType |-> fromType, toType |-> toType, schema |-> schema,
     parentTypes |-> <<>>]

\* two versions of type-definitions.ts, each a list of its entries in declaration
\* order: the second adds a required field to task, changes the type of goal's
\* optional field, declares note and dependsOn and adds a field to subTask
TypeDefinitions ==
    { [elementTypes |->
           << ElementTypeDef("task", ZodObject([title |-> ZodString])),
              ElementTypeDef("goal", ZodObject([title |-> ZodOptional(ZodString)])) >>,
       linkTypes |->
           << LinkTypeDef("subTask", "task", "task", ZodObject(EmptyObject)) >>],
      [elementTypes |->
           << ElementTypeDef("task", ZodObject([title |-> ZodString, completed |-> Bool])),
              ElementTypeDef("goal", ZodObject([title |-> ZodOptional(ZodNumber)])),
              ElementTypeDef("note", ZodObject(EmptyObject)) >>,
       linkTypes |->
           << LinkTypeDef("subTask", "task", "task", ZodObject([order |-> ZodNumber])),
              LinkTypeDef("dependsOn", "task", "task", ZodObject(EmptyObject)) >>] }

Scripts == { "sync-graph-types.ts", "part_016" }

\* the order in which a query without ORDER BY returns the rows of a type table
TypeIdOrder == <<"task", "goal", "note", "subTask", "dependsOn">>

findMany(table) == SelectSeq(TypeIdOrder, LAMBDA id : id \in DOMAIN table)

\* select count(*) from a table where a column equals a value
count(table, column, value) ==
    Cardinality({k \in DOMAIN table : table[k][column] = value})

SyncResult == [added |-> <<>>, updated |-> <<>>, orphaned |-> <<>>, errors |-> <<>>]

TypeIds(typeDefs) == {typeDefs[i].id : i \in 1..Len(typeDefs)}

\* one turn of the loop of syncElementTypes with the unsafe branch falling through
\* to the update
syncElementType_WriteUnsafe(typeDef, existingTypeMap, sofar) ==
    LET Row(serializedSchema) ==
            [schema |-> serializedSchema, parentTypes |-> typeDef.parentTypes]
        Evolve(serializedSchema, changes) ==
            IF changes = <<>>
            THEN sofar
            ELSE LET Apply(safety) ==
                         IF ~safety.safe
                         THEN [table |-> Insert(sofar.table, typeDef.id, Row(serializedSchema)),
                               result |-> [sofar.result EXCEPT
                                               !.errors = Append(@, [typeId |-> typeDef.id,
                                                                     reason |-> safety.reason])]]
                         ELSE [table |-> Insert(sofar.table, typeDef.id, Row(serializedSchema)),
                               result |-> [sofar.result EXCEPT
                                               !.updated = Append(@, typeDef.id)]]
                 IN  Apply(isSchemaChangeSafe(changes,
                                              count(element, "typeId", typeDef.id)))
        Sync(serializedSchema) ==
            IF typeDef.id \notin DOMAIN existingTypeMap
            THEN [table |-> Insert(sofar.table, typeDef.id, Row(serializedSchema)),
                  result |-> [sofar.result EXCEPT !.added = Append(@, typeDef.id)]]
            ELSE Evolve(serializedSchema,
                        detectSchemaChanges(existingTypeMap[typeDef.id].schema,
                                            serializedSchema))
    IN  Sync(serializeZodSchema(typeDef.schema))

\* one turn of the loop of syncElementTypes: the table and the result it leaves
syncElementType(typeDef, existingTypeMap, sofar) ==
    LET Row(serializedSchema) ==
            [schema |-> serializedSchema, parentTypes |-> typeDef.parentTypes]
        Evolve(serializedSchema, changes) ==
            IF changes = <<>>
            THEN sofar
            ELSE LET Apply(safety) ==
                         IF ~safety.safe
                         THEN [table |-> sofar.table,
                               result |-> [sofar.result EXCEPT
                                               !.errors = Append(@, [typeId |-> typeDef.id,
                                                                     reason |-> safety.reason])]]
                         ELSE [table |-> Insert(sofar.table, typeDef.id, Row(serializedSchema)),
                               result |-> [sofar.result EXCEPT
                                               !.updated = Append(@, typeDef.id)]]
                 IN  Apply(isSchemaChangeSafe(changes,
                                              count(element, "typeId", typeDef.id)))
        Sync(serializedSchema) ==
            IF typeDef.id \notin DOMAIN existingTypeMap
            THEN [table |-> Insert(sofar.table, typeDef.id, Row(serializedSchema)),
                  result |-> [sofar.result EXCEPT !.added = Append(@, typeDef.id)]]
            ELSE Evolve(serializedSchema,
                        detectSchemaChanges(existingTypeMap[typeDef.id].schema,
                                            serializedSchema))
    IN  Sync(serializeZodSchema(typeDef.schema))

\* one turn of the loop of syncLinkTypes
syncLinkType(typeDef, existingTypeMap, sofar) ==
    LET Row(serializedSchema) ==
            [fromType |-> typeDef.fromType, toType |-> typeDef.toType,
             schema |-> serializedSchema, parentTypes |-> typeDef.parentTypes]
        Evolve(serializedSchema, changes) ==
            IF changes = <<>>
            THEN sofar
            ELSE LET Apply(safety) ==
                         IF ~safety.safe
                         THEN [table |-> sofar.table,
                               result |-> [sofar.result EXCEPT
                                               !.errors = Append(@, [typeId |-> typeDef.id,
                                                                     reason |-> safety.reason])]]
                         ELSE [table |-> Insert(sofar.table, typeDef.id, Row(serializedSchema)),
                               result |-> [sofar.result EXCEPT
                                               !.updated = Append(@, typeDef.id)]]
                 IN  Apply(isSchemaChangeSafe(changes,
                                              count(link, "linkTypeId", typeDef.id)))
        Sync(serializedSchema) ==
            IF typeDef.id \notin DOMAIN existingTypeMap
            THEN [table |-> Insert(sofar.table, typeDef.id, Row(serializedSchema)),
                  result |-> [sofar.result EXCEPT !.added = Append(@, typeDef.id)]]
            ELSE Evolve(serializedSchema,
                        detectSchemaChanges(existingTypeMap[typeDef.id].schema,
                                            serializedSchema))
    IN  Sync(serializeZodSchema(typeDef.schema))

\* for (const [typeId, typeDef] of Object.entries(elementTypes)), each turn in its
\* own try/catch
RECURSIVE syncElementTypesLoop(_, _, _)
syncElementTypesLoop(typeDefs, existingTypeMap, sofar) ==
    IF typeDefs = <<>>
    THEN sofar
    ELSE syncElementTypesLoop(Tail(typeDefs), existingTypeMap,
                              syncElementType(Head(typeDefs), existingTypeMap, sofar))

RECURSIVE syncLinkTypesLoop(_, _, _)
syncLinkTypesLoop(typeDefs, existingTypeMap, sofar) ==
    IF typeDefs = <<>>
    THEN sofar
    ELSE syncLinkTypesLoop(Tail(typeDefs), existingTypeMap,
                           syncLinkType(Head(typeDefs), existingTypeMap, sofar))

\* the stored types the code does not declare
Orphaned(existingTypeMap, typeDefs) ==
    SelectSeq(findMany(existingTypeMap), LAMBDA id : id \notin TypeIds(typeDefs))

\* no run is under way
Idle == IF last.op = "sync" THEN last.pc = "exit" ELSE TRUE

main(typeDefinitions, isPruneMode, script) ==
    /\ Idle
    /\ last' = [op |-> "sync", pc |-> "sync", script |-> script,
                isPruneMode |-> isPruneMode,
                elementTypes |-> typeDefinitions.elementTypes,
                linkTypes |-> typeDefinitions.linkTypes,
                pending |-> {"syncElementTypes", "syncLinkTypes"},
                before |-> [elementType |-> elementType, linkType |-> linkType,
                            element |-> element, link |-> link],
                elementResult |-> SyncResult, linkResult |-> SyncResult,
                stage |-> "", elementIds |-> <<>>, removed |-> {}, exitCode |-> 0]
    /\ UNCHANGED <<elementType, linkType, element, link, elementUuids, linkUuids>>

syncElementTypes ==
    /\ last.op = "sync" /\ last.pc = "sync" /\ "syncElementTypes" \in last.pending
    /\ LET Return(out) ==
               /\ elementType' = out.table
               /\ last' = [last EXCEPT
                              !.pending = @ \ {"syncElementTypes"},
                              !.elementResult =
                                  [out.result EXCEPT
                                      !.orphaned = Orphaned(elementType, last.elementTypes)]]
       IN  Return(syncElementTypesLoop(last.elementTypes, elementType,
                                       [table |-> elementType, result |-> SyncResult]))
    /\ UNCHANGED <<linkType, element, link, elementUuids, linkUuids>>

syncLinkTypes ==
    /\ last.op = "sync" /\ last.pc = "sync" /\ "syncLinkTypes" \in last.pending
    /\ LET Return(out) ==
               /\ linkType' = out.table
               /\ last' = [last EXCEPT
                              !.pending = @ \ {"syncLinkTypes"},
                              !.linkResult =
                                  [out.result EXCEPT
                                      !.orphaned = Orphaned(linkType, last.linkTypes)]]
       IN  Return(syncLinkTypesLoop(last.linkTypes, linkType,
                                    [table |-> linkType, result |-> SyncResult]))
    /\ UNCHANGED <<elementType, element, link, elementUuids, linkUuids>>

\* process.exit(1) when either result holds an error
Exit(run) ==
    [run EXCEPT !.pc = "exit", !.stage = "",
                !.exitCode = IF run.elementResult.errors # <<>> \/ run.linkResult.errors # <<>>
                             THEN 1 ELSE 0]

\* main after Promise.all: the summary, and the prune when there are orphaned
\* types and --prune was given; part_016 answers --prune with a message only
summary ==
    /\ last.op = "sync" /\ last.pc = "sync" /\ last.pending = {}
    /\ last' = IF /\ last.elementResult.orphaned # <<>> \/ last.linkResult.orphaned # <<>>
                  /\ last.isPruneMode
                  /\ last.script = "sync-graph-types.ts"
               THEN [last EXCEPT !.pc = "prune",
                                 !.stage = IF last.linkResult.orphaned # <<>>
                                           THEN "links" ELSE "count"]
               ELSE Exit(last)
    /\ UNCHANGED <<elementType, linkType, element, link, elementUuids, linkUuids>>

\* pruneOrphanedTypes, first loop: the links of the orphaned link type
pruneLinks ==
    /\ last.op = "sync" /\ last.pc = "prune" /\ last.stage = "links"
    /\ link' = Delete(link, {l \in DOMAIN link :
                                link[l].linkTypeId = Head(last.linkResult.orphaned)})
    /\ last' = [last EXCEPT !.stage = "linkType"]
    /\ UNCHANGED <<elementType, linkType, element, elementUuids, linkUuids>>

\* ... then its row
pruneLinkType ==
    /\ last.op = "sync" /\ last.pc = "prune" /\ last.stage = "linkType"
    /\ linkType' = Delete(linkType, {Head(last.linkResult.orphaned)})
    /\ last' = IF Tail(last.linkResult.orphaned) # <<>>
               THEN [last EXCEPT !.linkResult.orphaned = Tail(@), !.stage = "links"]
               ELSE IF last.elementResult.orphaned # <<>>
               THEN [last EXCEPT !.linkResult.orphaned = Tail(@), !.stage = "count"]
               ELSE Exit([last EXCEPT !.linkResult.orphaned = Tail(@)])
    /\ UNCHANGED <<elementType, element, link, elementUuids, linkUuids>>

\* second loop: count the elements of the orphaned element type and list their ids
pruneCount ==
    /\ last.op = "sync" /\ last.pc = "prune" /\ last.stage = "count"
    /\ last' = IF count(element, "typeId", Head(last.elementResult.orphaned)) > 0
               THEN [last EXCEPT
                        !.stage = "elementLinks",
                        !.elementIds =
                            SelectSeq([i \in 1..MaxElements |-> i],
                                      LAMBDA e : /\ e \in DOMAIN element
                                                 /\ element[e].typeId
                                                      = Head(last.elementResult.orphaned))]
               ELSE [last EXCEPT !.stage = "elementType"]
    /\ UNCHANGED <<elementType, linkType, element, link, elementUuids, linkUuids>>

\* ... the links from or to one of them
pruneElementLinks ==
    /\ last.op = "sync" /\ last.pc = "prune" /\ last.stage = "elementLinks"
    /\ link' = Delete(link, {l \in DOMAIN link :
                                \/ link[l].fromId = Head(last.elementIds)
                                \/ link[l].toId = Head(last.elementIds)})
    /\ last' = [last EXCEPT !.elementIds = Tail(@),
                            !.stage = IF Tail(last.elementIds) = <<>>
                                      THEN "elements" ELSE "elementLinks"]
    /\ UNCHANGED <<elementType, linkType, element, elementUuids, linkUuids>>

\* ... the elements themselves
pruneElements ==
    /\ last.op = "sync" /\ last.pc = "prune" /\ last.stage = "elements"
    /\ element' = Delete(element, {e \in DOMAIN element :
                                      element[e].typeId = Head(last.elementResult.orphaned)})
    /\ last' = [last EXCEPT
                   !.stage = "elementType",
                   !.removed = @ \cup {e \in DOMAIN element :
                                          element[e].typeId
                                            = Head(last.elementResult.orphaned)}]
    /\ UNCHANGED <<elementType, linkType, link, elementUuids, linkUuids>>

\* ... then the row of the element type
pruneElementType ==
    /\ last.op = "sync" /\ last.pc = "prune" /\ last.stage = "elementType"
    /\ elementType' = Delete(elementType, {Head(last.elementResult.orphaned)})
    /\ last' = IF Tail(last.elementResult.orphaned) # <<>>
               THEN [last EXCEPT !.elementResult.orphaned = Tail(@), !.stage = "count"]
               ELSE Exit([last EXCEPT !.elementResult.orphaned = Tail(@)])
    /\ UNCHANGED <<linkType, element, link, elementUuids, linkUuids>>

\* what the callers store between two runs of the tool
SyncInserts ==
    { <<"task", [title |-> "'a'"]>>, <<"goal", EmptyObject>>, <<"note", EmptyObject>> }

NextSync ==
    \/ \E typeDefinitions \in TypeDefinitions, isPruneMode \in BOOLEAN, script \in Scripts :
          main(typeDefinitions, isPruneMode, script)
    \/ syncElementTypes
    \/ syncLinkTypes
    \/ summary
    \/ pruneLinks
    \/ pruneLinkType
    \/ pruneCount
    \/ pruneElementLinks
    \/ pruneElements
    \/ pruneElementType
    \/ Idle /\ \E insert \in SyncInserts : createElement(insert[1], insert[2])
    \/ Idle /\ \E fromId \in ElementIds, linkTypeId \in {"subTask", "dependsOn"} :
                  createLink(fromId, 1, linkTypeId, EmptyObject)

SpecSync == Init /\ [][NextSync]_vars

(***************************************************************************)
(* Query helpers: query-helpers.ts, called on a store nobody writes to.    *)
(* `last` holds the call: for traverse its queue, visited set and results  *)
(* between two turns of the while loop.                                    *)
(***************************************************************************)
\* the links of the stores the helpers are called on
MaxGraphLinks == 2
\* the largest maxDepth passed to traverse
MaxDepth == 2
\* the largest limit and offset passed to findByTypePaginated
MaxLimit == 3

\* the link tables: up to MaxGraphLinks links of one type between any two ids,
\* inserted in the order of their endpoints (self-loops and parallel links among them)
EdgeLists ==
    { list \in UNION { [1..n -> ElementIds \X ElementIds] : n \in 0..MaxGraphLinks } :
         \A i \in 1..(Len(list) - 1) :
            \/ list[i][1] < list[i + 1][1]
            \/ list[i][1] = list[i + 1][1] /\ list[i][2] <= list[i + 1][2] }

\* every element id was handed out and the last element may have been deleted since
InitQuery ==
    /\ elementType = [t \in {"task"} |->
                         [schema |-> serializeZodSchema(ZodObject([title |-> ZodString])),
                          parentTypes |-> <<>>]]
    /\ linkType = [t \in {"subTask"} |->
                      [fromType |-> "task", toType |-> "task",
                       schema |-> serializeZodSchema(ZodObject(EmptyObject)),
                       parentTypes |-> <<>>]]
    /\ \E present \in {ElementIds, ElementIds \ {MaxElements}} :
          element = [e \in present |-> [typeId |-> "task", data |-> [title |-> "'a'"]]]
    /\ \E list \in EdgeLists :
          /\ link = [l \in 1..Len(list) |->
                        [fromId |-> list[l][1], toId |-> list[l][2],
                         linkTypeId |-> "subTask", data |-> EmptyObject]]
          /\ linkUuids = Len(list)
    /\ elementUuids = MaxElements
    /\ last = Outcome("none", "ok", NoId, "", EmptyObject, FALSE, EmptyObject, {})

\* findElementsByType as the list the query returns, in the order of insertion
findByType(typeId) ==
    SelectSeq([i \in 1..elementUuids |-> i],
              LAMBDA e : IF e \in DOMAIN element THEN element[e].typeId = typeId ELSE FALSE)

\* findLinksFrom and findLinksTo as the lists the queries return
getLinksFrom(elementId, linkTypeId) ==
    SelectSeq([i \in 1..linkUuids |-> i],
              LAMBDA l : IF l \in DOMAIN link
                         THEN /\ link[l].fromId = elementId
                              /\ (linkTypeId # "" => link[l].linkTypeId = linkTypeId)
                         ELSE FALSE)

getLinksTo(elementId, linkTypeId) ==
    SelectSeq([i \in 1..linkUuids |-> i],
              LAMBDA l : IF l \in DOMAIN link
                         THEN /\ link[l].toId = elementId
                              /\ (linkTypeId # "" => link[l].linkTypeId = linkTypeId)
                         ELSE FALSE)

\* getAllLinks that asks for the outgoing links alone
getAllLinks_FromOnly(elementId, linkTypeId) == getLinksFrom(elementId, linkTypeId)

getAllLinks(elementId, linkTypeId) ==
    getLinksFrom(elementId, linkTypeId) \o getLinksTo(elementId, linkTypeId)

\* the entry the loop of getConnectedElements makes of one link; its element and
\* its link are the ids of the rows
Connected(elementId, l) ==
    [element |-> IF link[l].fromId = elementId THEN link[l].toId ELSE link[l].fromId,
     link |-> l,
     direction |-> IF link[l].fromId = elementId THEN "to" ELSE "from"]

\* the results of getConnectedElements: an entry per link whose other end is stored
connectedElements(elementId, linkTypeId) ==
    LET Stored(links) ==
            SelectSeq([i \in 1..Len(links) |-> Connected(elementId, links[i])],
                      LAMBDA entry : entry.element \in DOMAIN element)
    IN  Stored(getAllLinks(elementId, linkTypeId))

\* no traverse is between two turns of its loop
Returned == IF last.op = "traverse" THEN last.pc = "returned" ELSE TRUE

getConnectedElements(elementId, linkTypeId) ==
    /\ Returned
    /\ last' = [op |-> "getConnectedElements", elementId |-> elementId,
                linkTypeId |-> linkTypeId,
                results |-> connectedElements(elementId, linkTypeId)]
    /\ UNCHANGED <<elementType, linkType, element, link, elementUuids, linkUuids>>

\* the inner loop of traverse pushing the path of the dequeued entry as it is
Pushed_SamePath(connected, visited, depth, path) ==
    LET Fresh(entries) ==
            [i \in 1..Len(entries) |->
                [elementId |-> entries[i].element, depth |-> depth + 1, path |-> path]]
    IN  Fresh(SelectSeq(connected, LAMBDA entry : entry.element \notin visited))

\* the entries the inner loop of traverse pushes: the connected elements not visited
Pushed(connected, visited, depth, path) ==
    LET Fresh(entries) ==
            [i \in 1..Len(entries) |->
                [elementId |-> entries[i].element, depth |-> depth + 1,
                 path |-> Append(path, entries[i].element)]]
    IN  Fresh(SelectSeq(connected, LAMBDA entry : entry.element \notin visited))

\* one turn of the while loop that leaves a visited entry at the head of the queue
traverseTurn_NoShift(run) ==
    LET shifted == Head(run.queue)
    IN  IF shifted.elementId \in run.visited
        THEN run
        ELSE IF shifted.depth > run.maxDepth
        THEN [run EXCEPT !.queue = Tail(@)]
        ELSE IF shifted.elementId \notin DOMAIN element
        THEN [run EXCEPT !.queue = Tail(@), !.visited = @ \cup {shifted.elementId}]
        ELSE [run EXCEPT
                 !.visited = @ \cup {shifted.elementId},
                 !.results = Append(@, [element |-> shifted.elementId,
                                         depth |-> shifted.depth, path |-> shifted.path]),
                 !.queue = Tail(@)
                           \o (IF shifted.depth < run.maxDepth
                               THEN Pushed(connectedElements(shifted.elementId,
                                                             run.linkTypeId),
                                           run.visited \cup {shifted.elementId},
                                           shifted.depth, shifted.path)
                               ELSE <<>>)]

\* one turn of the while loop without the visited test
traverseTurn_NoVisited(run) ==
    LET shifted == Head(run.queue)
    IN  IF shifted.depth > run.maxDepth
        THEN [run EXCEPT !.queue = Tail(@)]
        ELSE IF shifted.elementId \notin DOMAIN element
        THEN [run EXCEPT !.queue = Tail(@), !.visited = @ \cup {shifted.elementId}]
        ELSE [run EXCEPT
                 !.visited = @ \cup {shifted.elementId},
                 !.results = Append(@, [element |-> shifted.elementId,
                                         depth |-> shifted.depth, path |-> shifted.path]),
                 !.queue = Tail(@)
                           \o (IF shifted.depth < run.maxDepth
                               THEN Pushed(connectedElements(shifted.elementId,
                                                             run.linkTypeId),
                                           run.visited \cup {shifted.elementId},
                                           shifted.depth, shifted.path)
                               ELSE <<>>)]

\* one turn of the while loop of traverse
traverseTurn(run) ==
    LET shifted == Head(run.queue)
    IN  IF shifted.elementId \in run.visited \/ shifted.depth > run.maxDepth
        THEN [run EXCEPT !.queue = Tail(@)]
        ELSE IF shifted.elementId \notin DOMAIN element
        THEN [run EXCEPT !.queue = Tail(@), !.visited = @ \cup {shifted.elementId}]
        ELSE [run EXCEPT
                 !.visited = @ \cup {shifted.elementId},
                 !.results = Append(@, [element |-> shifted.elementId,
                                         depth |-> shifted.depth, path |-> shifted.path]),
                 !.queue = Tail(@)
                           \o (IF shifted.depth < run.maxDepth
                               THEN Pushed(connectedElements(shifted.elementId,
                                                             run.linkTypeId),
                                           run.visited \cup {shifted.elementId},
                                           shifted.depth, shifted.path)
                               ELSE <<>>)]

\* the call of traverse up to its loop
traverse(startElementId, linkTypeId, maxDepth) ==
    /\ Returned
    /\ last' = [op |-> "traverse", pc |-> "loop", startElementId |-> startElementId,
                linkTypeId |-> linkTypeId, maxDepth |-> maxDepth, visited |-> {},
                queue |-> << [elementId |-> startElementId, depth |-> 0,
                              path |-> <<startElementId>>] >>,
                results |-> <<>>]
    /\ UNCHANGED <<elementType, linkType, element, link, elementUuids, linkUuids>>

\* a turn of the loop, and the return when it leaves the queue empty
traverseLoop ==
    /\ last.op = "traverse" /\ last.pc = "loop"
    /\ LET Continue(run) ==
               last' = [run EXCEPT !.pc = IF run.queue = <<>> THEN "returned" ELSE "loop"]
       IN  Continue(traverseTurn(last))
    /\ UNCHANGED <<elementType, linkType, element, link, elementUuids, linkUuids>>

\* Array.prototype.slice(start, end) for integers 0 <= start <= end
slice(list, start, end) ==
    [i \in 1..((IF end < Len(list) THEN end ELSE Len(list)) - start) |-> list[start + i]]

\* findByTypePaginated slicing up to limit instead of offset + limit
findByTypePaginated_SliceToLimit(typeId, limit, offset) ==
    /\ Returned
    /\ last' = [op |-> "findByTypePaginated", typeId |-> typeId, limit |-> limit,
                offset |-> offset,
                elements |-> slice(findByType(typeId), offset, limit),
                total |-> Len(findByType(typeId))]
    /\ UNCHANGED <<elementType, linkType, element, link, elementUuids, linkUuids>>

findByTypePaginated(typeId, limit, offset) ==
    /\ Returned
    /\ last' = [op |-> "findByTypePaginated", typeId |-> typeId, limit |-> limit,
                offset |-> offset,
                elements |-> slice(findByType(typeId), offset, offset + limit),
                total |-> Len(findByType(typeId))]
    /\ UNCHANGED <<elementType, linkType, element, link, elementUuids, linkUuids>>

NextQuery ==
    \/ \E startElementId \in ElementIds, linkTypeId \in {"", "subTask", "dependsOn"},
          maxDepth \in 0..MaxDepth : traverse(startElementId, linkTypeId, maxDepth)
    \/ traverseLoop
    \/ \E elementId \in ElementIds, linkTypeId \in {"", "subTask", "dependsOn"} :
          getConnectedElements(elementId, linkTypeId)
    \/ \E typeId \in {"task", "goal"}, limit \in 0..MaxLimit, offset \in 0..MaxLimit :
          findByTypePaginated(typeId, limit, offset)

SpecQuery == InitQuery /\ [][NextQuery]_vars

\* the event loop runs the continuation of every awaited query
SpecQueryFair == SpecQuery /\ WF_vars(traverseLoop)

(***************************************************************************)
(* The read operations of the store and of the query helpers, called in    *)
(* any order on a store whose element type gained a defaulted field after  *)
(* its rows were written.                                                  *)
(***************************************************************************)
InitRead ==
    /\ elementType = [t \in {"task"} |->
                         [schema |-> serializeZodSchema(
                                        ZodObject([title |-> ZodString,
                                                   completed |-> ZodDefault(Bool, "false")])),
                          parentTypes |-> <<>>]]
    /\ linkType = [t \in {"subTask"} |->
                      [fromType |-> "task", toType |-> "task",
                       schema |-> serializeZodSchema(ZodObject(EmptyObject)),
                       parentTypes |-> <<>>]]
    /\ \E present \in {ElementIds, ElementIds \ {MaxElements}} :
          element = [e \in present |-> [typeId |-> "task", data |-> [title |-> "'a'"]]]
    /\ \E list \in EdgeLists :
          /\ link = [l \in 1..Len(list) |->
                        [fromId |-> list[l][1], toId |-> list[l][2],
                         linkTypeId |-> "subTask", data |-> EmptyObject]]
          /\ linkUuids = Len(list)
    /\ elementUuids = MaxElements
    /\ last = Outcome("none", "ok", NoId, "", EmptyObject, FALSE, EmptyObject, {})

NextRead ==
    \/ Returned /\ \E id \in ElementIds : getElement(id)
    \/ Returned /\ \E id \in 1..MaxGraphLinks : getLink(id)
    \/ Returned /\ \E typeId \in {"task", "goal"} : findElementsByType(typeId)
    \/ Returned /\ \E elementId \in ElementIds, linkTypeId \in {"", "subTask"} :
                      findLinksFrom(elementId, linkTypeId)
    \/ Returned /\ \E elementId \in ElementIds, linkTypeId \in {"", "subTask"} :
                      findLinksTo(elementId, linkTypeId)
    \/ \E elementId \in ElementIds, linkTypeId \in {"", "subTask"} :
          getConnectedElements(elementId, linkTypeId)
    \/ \E startElementId \in ElementIds, linkTypeId \in {"", "subTask"},
          maxDepth \in 0..MaxDepth : traverse(startElementId, linkTypeId, maxDepth)
    \/ traverseLoop
    \/ \E typeId \in {"task", "goal"}, limit \in 0..MaxLimit, offset \in 0..MaxLimit :
          findByTypePaginated(typeId, limit, offset)

SpecRead == InitRead /\ [][NextRead]_vars

(***************************************************************************)
(* Calls in flight.  Two callers each run one call of the store or of the  *)
(* sync tool, a step per awaited query, in any interleaving.  `last` holds *)
(* the calls: the name and arguments of each, the query it waits for, what *)
(* it has read so far, and which call wrote an element's data last.        *)
(***************************************************************************)
Callers == {"first", "second"}

Pair == ZodObject([a |-> ZodOptional(ZodString), b |-> ZodOptional(ZodString)])

\* the declaration of task with a required field the stored descriptor lacks
PairCompleted ==
    ZodObject([a |-> ZodOptional(ZodString), b |-> ZodOptional(ZodString),
               completed |-> Bool])

Call(name, pc, args, local) == [name |-> name, pc |-> pc, args |-> args, local |-> local]

NoCall == Call("", "idle", EmptyObject, EmptyObject)

\* the calls the callers make, each with the first query it awaits
Menu ==
    { Call("updateElement", "getElement.element", [id |-> 1, data |-> [a |-> "'a'"]],
           EmptyObject),
      Call("updateElement", "getElement.element", [id |-> 1, data |-> [b |-> "'b'"]],
           EmptyObject),
      Call("createElement", "elementType", [typeId |-> "task", data |-> EmptyObject],
           EmptyObject),
      Call("deleteElement", "delete", [id |-> 1], EmptyObject),
      Call("createLink", "fromElement",
           [fromId |-> 1, toId |-> 1, linkTypeId |-> "subTask", data |-> EmptyObject],
           EmptyObject),
      Call("syncElementTypes", "findMany",
           [elementTypes |-> << ElementTypeDef("task", PairCompleted) >>], EmptyObject) }

\* a store with the type task, the link type subTask and one element or none
InitRace ==
    /\ elementType = [t \in {"task"} |->
                         [schema |-> serializeZodSchema(Pair), parentTypes |-> <<>>]]
    /\ linkType = [t \in {"subTask"} |->
                      [fromType |-> "task", toType |-> "task",
                       schema |-> serializeZodSchema(ZodObject(EmptyObject)),
                       parentTypes |-> <<>>]]
    /\ \E stored \in 0..1 :
          /\ element = [e \in 1..stored |-> [typeId |-> "task", data |-> EmptyObject]]
          /\ elementUuids = stored
    /\ link = EmptyObject
    /\ linkUuids = 0
    /\ last = [op |-> "calls", calls |-> [p \in Callers |-> NoCall], lastWrite |-> ""]

At(p, name, pc) ==
    /\ last.op = "calls"
    /\ last.calls[p].name = name
    /\ last.calls[p].pc = pc

Goto(p, pc, local) ==
    last' = [last EXCEPT !.calls[p].pc = pc, !.calls[p].local = local]

Throw(p, status) ==
    /\ last' = [last EXCEPT !.calls[p].pc = "thrown", !.calls[p].local = [status |-> status]]
    /\ UNCHANGED <<elementType, linkType, element, link, elementUuids, linkUuids>>

Read(p, pc, local) ==
    /\ Goto(p, pc, local)
    /\ UNCHANGED <<elementType, linkType, element, link, elementUuids, linkUuids>>

StartCall(p, call) ==
    /\ last.op = "calls"
    /\ last.calls[p].pc = "idle"
    /\ last' = [last EXCEPT !.calls[p] = call]
    /\ UNCHANGED <<elementType, linkType, element, link, elementUuids, linkUuids>>

\* getElement inside updateElement: db.query.element.findFirst
updateElement_findElement(p) ==
    /\ At(p, "updateElement", "getElement.element")
    /\ IF last.calls[p].args.id \notin DOMAIN element
       THEN Throw(p, "NotFound")
       ELSE Read(p, "getElement.elementType", [row |-> element[last.calls[p].args.id]])

\* getElement inside updateElement: the type is read and the row loosely validated
updateElement_getElement(p) ==
    /\ At(p, "updateElement", "getElement.elementType")
    /\ Read(p, "elementType", [existing |-> LooseRow(last.calls[p].local.row)])

\* updateElement reads the type, merges and validates
updateElement_findType(p) ==
    /\ At(p, "updateElement", "elementType")
    /\ IF last.calls[p].local.existing.typeId \notin DOMAIN elementType
       THEN Throw(p, "TypeNotFound")
       ELSE LET Decide(validation) ==
                    IF ~validation.success
                    THEN Throw(p, "ValidationFailed")
                    ELSE Read(p, "update", [data |-> validation.data])
            IN  Decide(validateElementData(
                           Spread(last.calls[p].local.existing.data, last.calls[p].args.data),
                           deserializeZodSchema(
                               elementType[last.calls[p].local.existing.typeId].schema),
                           "strict"))

\* the UPDATE of updateElement that merges its payload into the row as it is now
updateElement_update_MergeCurrent(p) ==
    /\ At(p, "updateElement", "update")
    /\ element' = [e \in DOMAIN element |->
                      IF e = last.calls[p].args.id
                      THEN [element[e] EXCEPT
                               !.data = Spread(element[e].data, last.calls[p].args.data)]
                      ELSE element[e]]
    /\ last' = [last EXCEPT !.calls[p].pc = "returned",
                            !.lastWrite = IF last.calls[p].args.id \in DOMAIN element
                                          THEN p ELSE @]
    /\ UNCHANGED <<elementType, linkType, link, elementUuids, linkUuids>>

\* UPDATE element SET data WHERE id
updateElement_update(p) ==
    /\ At(p, "updateElement", "update")
    /\ element' = [e \in DOMAIN element |->
                      IF e = last.calls[p].args.id
                      THEN [element[e] EXCEPT !.data = last.calls[p].local.data]
                      ELSE element[e]]
    /\ last' = [last EXCEPT !.calls[p].pc = "returned",
                            !.lastWrite = IF last.calls[p].args.id \in DOMAIN element
                                          THEN p ELSE @]
    /\ UNCHANGED <<elementType, linkType, link, elementUuids, linkUuids>>

createElement_findType(p) ==
    /\ At(p, "createElement", "elementType")
    /\ IF last.calls[p].args.typeId \notin DOMAIN elementType
       THEN Throw(p, "TypeNotFound")
       ELSE LET Decide(validation) ==
                    IF ~validation.success
                    THEN Throw(p, "ValidationFailed")
                    ELSE Read(p, "insert", [data |-> validation.data])
            IN  Decide(validateElementData(
                           last.calls[p].args.data,
                           deserializeZodSchema(elementType[last.calls[p].args.typeId].schema),
                           "strict"))

createElement_insert(p) ==
    /\ At(p, "createElement", "insert")
    /\ elementUuids < MaxElements
    /\ elementUuids' = elementUuids + 1
    /\ element' = Insert(element, elementUuids + 1,
                         [typeId |-> last.calls[p].args.typeId,
                          data |-> last.calls[p].local.data])
    /\ Goto(p, "returned", [id |-> elementUuids + 1])
    /\ UNCHANGED <<elementType, linkType, link, linkUuids>>

deleteElement_delete(p) ==
    /\ At(p, "deleteElement", "delete")
    /\ element' = Delete(element, {last.calls[p].args.id})
    /\ Goto(p, "returned", EmptyObject)
    /\ UNCHANGED <<elementType, linkType, link, elementUuids, linkUuids>>

createLink_findFrom(p) ==
    /\ At(p, "createLink", "fromElement")
    /\ IF last.calls[p].args.fromId \notin DOMAIN element
       THEN Throw(p, "SourceNotFound")
       ELSE Read(p, "toElement", EmptyObject)

createLink_findTo(p) ==
    /\ At(p, "createLink", "toElement")
    /\ IF last.calls[p].args.toId \notin DOMAIN element
       THEN Throw(p, "TargetNotFound")
       ELSE Read(p, "linkType", EmptyObject)

createLink_findType(p) ==
    /\ At(p, "createLink", "linkType")
    /\ IF last.calls[p].args.linkTypeId \notin DOMAIN linkType
       THEN Throw(p, "TypeNotFound")
       ELSE LET Decide(validation) ==
                    IF ~validation.success
                    THEN Throw(p, "ValidationFailed")
                    ELSE Read(p, "insert", [data |-> validation.data])
            IN  Decide(validateLinkData(
                           last.calls[p].args.data,
                           deserializeZodSchema(linkType[last.calls[p].args.linkTypeId].schema),
                           "strict"))

createLink_insert(p) ==
    /\ At(p, "createLink", "insert")
    /\ linkUuids < MaxLinks
    /\ linkUuids' = linkUuids + 1
    /\ link' = Insert(link, linkUuids + 1,
                      [fromId |-> last.calls[p].args.fromId,
                       toId |-> last.calls[p].args.toId,
                       linkTypeId |-> last.calls[p].args.linkTypeId,
                       data |-> last.calls[p].local.data])
    /\ Goto(p, "returned", [id |-> linkUuids + 1])
    /\ UNCHANGED <<elementType, linkType, element, elementUuids>>

\* syncElementTypes: the stored types are read once, before the loop
syncElementTypes_findMany(p) ==
    /\ At(p, "syncElementTypes", "findMany")
    /\ Read(p, "turn", [existingTypeMap |-> elementType,
                        todo |-> last.calls[p].args.elementTypes,
                        result |-> SyncResult])

\* the turn of the loop up to its first write: an insert of a type not stored, or
\* the count of the elements of a type whose schema differs
syncElementTypes_turn(p) ==
    /\ At(p, "syncElementTypes", "turn")
    /\ LET Turn(local, typeDef, serializedSchema) ==
               IF typeDef.id \notin DOMAIN local.existingTypeMap
               THEN IF typeDef.id \in DOMAIN elementType
                    THEN Read(p, "turn",
                              [local EXCEPT !.todo = Tail(@),
                                            !.result.errors =
                                                Append(@, [typeId |-> typeDef.id,
                                                           reason |-> "WriteFailed"])])
                    ELSE /\ elementType' =
                               Insert(elementType, typeDef.id,
                                      [schema |-> serializedSchema,
                                       parentTypes |-> typeDef.parentTypes])
                         /\ Goto(p, "turn", [local EXCEPT !.todo = Tail(@),
                                                          !.result.added =
                                                              Append(@, typeDef.id)])
                         /\ UNCHANGED <<linkType, element, link, elementUuids, linkUuids>>
               ELSE LET Judge(changes) ==
                            IF changes = <<>>
                            THEN Read(p, "turn", [local EXCEPT !.todo = Tail(@)])
                            ELSE LET Decide(safety) ==
                                         IF ~safety.safe
                                         THEN Read(p, "turn",
                                                   [local EXCEPT
                                                       !.todo = Tail(@),
                                                       !.result.errors =
                                                           Append(@, [typeId |-> typeDef.id,
                                                                      reason |-> safety.reason])])
                                         ELSE Read(p, "update", local)
                                 IN  Decide(isSchemaChangeSafe(
                                                changes, count(element, "typeId", typeDef.id)))
                    IN  Judge(detectSchemaChanges(local.existingTypeMap[typeDef.id].schema,
                                                  serializedSchema))
       IN  IF last.calls[p].local.todo = <<>>
           THEN Read(p, "returned", last.calls[p].local)
           ELSE Turn(last.calls[p].local, Head(last.calls[p].local.todo),
                     serializeZodSchema(Head(last.calls[p].local.todo).schema))

\* UPDATE element_type SET schema, parent_types WHERE id
syncElementTypes_update(p) ==
    /\ At(p, "syncElementTypes", "update")
    /\ LET Write(local, typeDef) ==
               /\ elementType' =
                     [t \in DOMAIN elementType |->
                         IF t = typeDef.id
                         THEN [schema |-> serializeZodSchema(typeDef.schema),
                               parentTypes |-> typeDef.parentTypes]
                         ELSE elementType[t]]
               /\ Goto(p, "turn", [local EXCEPT !.todo = Tail(@),
                                                !.result.updated = Append(@, typeDef.id)])
               /\ UNCHANGED <<linkType, element, link, elementUuids, linkUuids>>
       IN  Write(last.calls[p].local, Head(last.calls[p].local.todo))

NextRace ==
    \/ \E p \in Callers, call \in Menu : StartCall(p, call)
    \/ \E p \in Callers : updateElement_findElement(p)
    \/ \E p \in Callers : updateElement_getElement(p)
    \/ \E p \in Callers : updateElement_findType(p)
    \/ \E p \in Callers : updateElement_update(p)
    \/ \E p \in Callers : createElement_findType(p)
    \/ \E p \in Callers : createElement_insert(p)
    \/ \E p \in Callers : deleteElement_delete(p)
    \/ \E p \in Callers : createLink_findFrom(p)
    \/ \E p \in Callers : createLink_findTo(p)
    \/ \E p \in Callers : createLink_findType(p)
    \/ \E p \in Callers : createLink_insert(p)
    \/ \E p \in Callers : syncElementTypes_findMany(p)
    \/ \E p \in Callers : syncElementTypes_turn(p)
    \/ \E p \in Callers : syncElementTypes_update(p)

SpecRace == InitRace /\ [][NextRace]_vars

(***************************************************************************)
(* Referential integrity and failure atomicity of the store.               *)
(***************************************************************************)
\* C1: no stored link references a deleted element: after any sequence of store
\* operations every link's fromId and toId is the id of a stored element (so
\* findLinksFrom(A) is empty once the B of createLink(A, B, L, data) is deleted)
C1_LinksCascade ==
    \A l \in DOMAIN link :
        /\ link[l].fromId \in DOMAIN element
        /\ link[l].toId \in DOMAIN element

\* C2: every stored element's typeId names a stored element type and every
\* stored link's linkTypeId names a stored link type
C2_TypesResolve ==
    /\ \A e \in DOMAIN element : element[e].typeId \in DOMAIN elementType
    /\ \A l \in DOMAIN link : link[l].linkTypeId \in DOMAIN linkType

WriteOps == {"createElement", "updateElement", "createLink", "updateLink"}

\* C3: a createElement, updateElement, createLink or updateLink that fails
\* leaves the element, link, element_type and link_type tables as they were
C3_FailureWritesNothing ==
    [][(last'.op \in WriteOps /\ last'.status # "ok") => tables' = tables]_vars

\* C3 witness: a createElement with an unknown typeId has just failed while
\* elements and links are stored
C3_Witness ==
    /\ last.op = "createElement"
    /\ last.status = "TypeNotFound"
    /\ DOMAIN element # {}
    /\ DOMAIN link # {}

(***************************************************************************)
(* Defaults, merging and loose reads of the element store.                 *)
(***************************************************************************)
\* the default a field's descriptor carries, undefined when it carries none
DefaultOf(descriptor) == GetKey(descriptor, "default")

\* C4: after a successful createElement every top-level field whose descriptor
\* carries a default and whose key is absent from the input is stored with
\* that default
C4_DefaultsStored ==
    (last.op = "createElement" /\ last.status = "ok") =>
        \A k \in DOMAIN elementType[last.typeId].schema.shape :
            (/\ DefaultOf(elementType[last.typeId].schema.shape[k]) # undefined
             /\ k \notin DOMAIN last.input)
            => /\ k \in DOMAIN element[last.id].data
               /\ element[last.id].data[k] = DefaultOf(elementType[last.typeId].schema.shape[k])

\* C5: a successful updateElement(id, partial) keeps the stored value of every
\* top-level field of the type that partial does not name, and stores a nested
\* object named in partial as given, not merged with the stored one
C5_ShallowMerge ==
    [][(last'.op = "updateElement" /\ last'.status = "ok") =>
          /\ \A k \in (DOMAIN element[last'.id].data) \ (DOMAIN last'.input) :
                k \in DOMAIN elementType[last'.typeId].schema.shape
                => /\ k \in DOMAIN element'[last'.id].data
                   /\ element'[last'.id].data[k] = element[last'.id].data[k]
          /\ \A k \in DOMAIN last'.input :
                (typeOf(last'.input[k]) = "object" /\ k \in DOMAIN element'[last'.id].data)
                => element'[last'.id].data[k] = last'.input[k]]_vars

\* the fields of the descriptor that carry a default and that the stored data lacks
NewDefaulted(descriptor, stored) ==
    {k \in DOMAIN descriptor.shape :
        DefaultOf(descriptor.shape[k]) # undefined /\ k \notin DOMAIN stored}

\* the descriptor as it was before those fields were added
Before(descriptor, stored) ==
    [descriptor EXCEPT !.shape =
        [k \in (DOMAIN @) \ NewDefaulted(descriptor, stored) |-> @[k]]]

\* a row stored under the descriptor as it was before defaulted fields were added
Predates(row) ==
    /\ row.typeId \in DOMAIN elementType
    /\ NewDefaulted(elementType[row.typeId].schema, row.data) # {}
    /\ validateElementData(row.data,
                           deserializeZodSchema(Before(elementType[row.typeId].schema,
                                                       row.data)),
                           "strict").success

\* the row read back has every added defaulted field, equal to its default
Filled(row, read) ==
    /\ read.defined
    /\ \A k \in NewDefaulted(elementType[row.typeId].schema, row.data) :
          /\ k \in DOMAIN read.data
          /\ read.data[k] = DefaultOf(elementType[row.typeId].schema.shape[k])

\* C6: getElement and findElementsByType return an element stored before a
\* defaulted field was added to its type with that field present and equal
\* to its default
C6_NewDefaultFilled ==
    /\ (last.op = "getElement" /\ last.status = "ok" /\ Predates(element[last.id]))
       => Filled(element[last.id], last)
    /\ last.op = "findElementsByType"
       => \A id \in DOMAIN last.rows :
             Predates(element[id]) => Filled(element[id], last.rows[id])

\* C6 witness: getElement has just returned completed = false for an element
\* whose stored data has no completed key
C6_Witness ==
    /\ last.op = "getElement"
    /\ last.status = "ok"
    /\ Predates(element[last.id])
    /\ "completed" \notin DOMAIN element[last.id].data
    /\ last.defined
    /\ "completed" \in DOMAIN last.data
    /\ last.data["completed"] = "false"

\* C7: getElement of a stored record that does not conform to its type's
\* descriptor still returns data: the stored data after the defaulting pass
C7_LooseKeepsData ==
    (/\ last.op = "getElement"
     /\ last.status = "ok"
     /\ last.typeId \in DOMAIN elementType
     /\ ~safeParse(deserializeZodSchema(elementType[last.typeId].schema),
                   applyDefaults(element[last.id].data,
                                 deserializeZodSchema(elementType[last.typeId].schema))).success)
    => /\ last.defined
       /\ last.data = applyDefaults(element[last.id].data,
                                    deserializeZodSchema(elementType[last.typeId].schema))

(***************************************************************************)
(* Round trip of the serializer, defaults under strict validation, and the *)
(* change detector.                                                        *)
(***************************************************************************)
\* a serialized schema as a JSON value: the order of its keys forgotten
RECURSIVE Canon(_)
CanonAll(list) == [i \in 1..Len(list) |-> Canon(list[i])]
Canon(d) ==
    LET node == [type |-> d.type,
                 ann |-> {d.ann[i] : i \in {j \in 1..Len(d.ann) : d.ann[j][2] # undefined}}]
    IN  IF d.type = "array" THEN <<node, <<Canon(d.element)>>, <<>> >>
        ELSE IF d.type = "object"
        THEN <<node, [i \in 1..Len(InOrder(DOMAIN d.shape)) |->
                         Canon(d.shape[InOrder(DOMAIN d.shape)[i]])],
               InOrder(DOMAIN d.shape)>>
        ELSE IF d.type = "enum" THEN <<node, <<>>, d.values>>
        ELSE IF d.type = "literal" THEN <<node, <<>>, <<d.value>> >>
        ELSE IF d.type = "union" THEN <<node, CanonAll(d.options), <<>> >>
        ELSE IF d.type = "intersection" THEN <<node, <<Canon(d.left), Canon(d.right)>>, <<>> >>
        ELSE IF d.type = "tuple" THEN <<node, CanonAll(d.items) \o CanonAll(d.rest),
                                        IF d.rest = <<>> THEN <<>> ELSE <<"rest">> >>
        ELSE IF d.type \in {"record", "map"}
        THEN <<node, <<Canon(d.key), Canon(d.value)>>, <<>> >>
        ELSE IF d.type = "set" THEN <<node, <<Canon(d.value)>>, <<>> >>
        ELSE IF d.type = "function" THEN <<node, CanonAll(d.args) \o <<Canon(d.returns)>>, <<>> >>
        ELSE IF d.type = "promise" THEN <<node, <<Canon(d.inner)>>, <<>> >>
        ELSE <<node, <<>>, <<>> >>

\* C8: serialize(deserialize(d)) equals d for every descriptor d that
\* serialize produces, whatever its variant and its annotations
C8_RoundTrip ==
    (last.op = "serializeZodSchema" /\ last.of # <<>>)
    => Canon(last.serialized) = Canon(last.of[1])

Kinds(changes) == {<<changes[i].type, changes[i].field>> : i \in 1..Len(changes)}

\* C10: the diff of two object descriptors has exactly one added entry per
\* field of new missing in old, one removed entry per field of old missing
\* in new and one changed entry per field of both whose JSON texts differ,
\* and nothing else; the diff is empty when either descriptor is no object
C10_DiffEntries ==
    last.op = "detectSchemaChanges"
    => IF last.oldSchema.type # "object" \/ last.newSchema.type # "object"
       THEN last.changes = <<>>
       ELSE /\ Cardinality(Kinds(last.changes)) = Len(last.changes)
            /\ Kinds(last.changes) =
                  {<<"added", k>> : k \in (DOMAIN last.newSchema.shape)
                                             \ (DOMAIN last.oldSchema.shape)}
                  \cup {<<"removed", k>> : k \in (DOMAIN last.oldSchema.shape)
                                                    \ (DOMAIN last.newSchema.shape)}
                  \cup {<<"changed", k>> :
                           k \in {j \in (DOMAIN last.oldSchema.shape)
                                           \cap (DOMAIN last.newSchema.shape) :
                                     JSONstringify(last.oldSchema.shape[j])
                                        # JSONstringify(last.newSchema.shape[j])}}

\* C10 witness: a diff of two object descriptors that holds a changed entry
\* and an added or removed entry
C10_Witness ==
    /\ last.op = "detectSchemaChanges"
    /\ last.oldSchema.type = "object"
    /\ last.newSchema.type = "object"
    /\ \E i \in 1..Len(last.changes) : last.changes[i].type = "changed"
    /\ \E i \in 1..Len(last.changes) : last.changes[i].type \in {"added", "removed"}

(***************************************************************************)
(* Safety of a schema change.                                              *)
(***************************************************************************)
\* the entries of a list of changes that are added or changed
Judged(changes) == {i \in 1..Len(changes) : changes[i].type \in {"added", "changed"}}

\* C11: every added or changed entry has required = not optional and
\* hasDefault = the new field's default is present (not null), whatever its
\* value; so a change whose required added fields all carry a default is
\* judged safe at any record count
C11_RequiredAndHasDefault ==
    /\ last.op \in {"detectSchemaChanges", "isSchemaChangeSafe"}
       => \A i \in Judged(last.changes) :
             /\ last.changes[i].required
                   = ~HasKey(last.newSchema.shape[last.changes[i].field], "optional")
             /\ last.changes[i].hasDefault
                   = (DefaultOf(last.newSchema.shape[last.changes[i].field])
                         \notin {undefined, null})
    /\ (/\ last.op = "isSchemaChangeSafe"
        /\ \A i \in Judged(last.changes) :
              DefaultOf(last.newSchema.shape[last.changes[i].field]) \notin {undefined, null})
       => last.result.safe

\* the entries that make a change unsafe
Offending(changes) ==
    {i \in Judged(changes) : changes[i].required /\ ~changes[i].hasDefault}

\* C12: isSchemaChangeSafe is safe when no record exists; with records it is
\* unsafe exactly when some added or changed entry is required without a
\* default, and then its reason names such an entry's field; removed entries
\* never count
C12_IsSafe ==
    last.op = "isSchemaChangeSafe"
    => /\ last.elementCount = 0 => last.result.safe
       /\ last.elementCount > 0
          => /\ last.result.safe = (Offending(last.changes) = {})
             /\ ~last.result.safe
                => \E i \in Offending(last.changes) :
                      last.result.reason.field = last.changes[i].field

\* C12 witness: a change with a removed entry and a changed entry that is
\* required without a default has just been judged unsafe for existing records
C12_Witness ==
    /\ last.op = "isSchemaChangeSafe"
    /\ last.elementCount > 0
    /\ ~last.result.safe
    /\ \E i \in 1..Len(last.changes) : last.changes[i].type = "removed"
    /\ \E i \in Offending(last.changes) : last.changes[i].type = "changed"

\* C13: when the change from old to new is judged safe for one or more
\* records, a record that passed strict validation against old reads back
\* (loose, under new) as data that passes strict validation against new
C13_SafeEvolutionPreserves ==
    (/\ last.op = "readStored"
     /\ last.elementCount >= 1
     /\ last.result.safe
     /\ last.written.success)
    => /\ last.read.defined
       /\ last.reread.success

(***************************************************************************)
(* The sync tool.                                                          *)
(***************************************************************************)
Range(list) == {list[i] : i \in 1..Len(list)}

\* a field of both shapes whose type tag differs
TypeChanged(oldSchema, newSchema) ==
    \E k \in DOMAIN oldSchema.shape \cap DOMAIN newSchema.shape :
        oldSchema.shape[k].type # newSchema.shape[k].type

\* C14: with at least one stored element of a type, a run of the sync tool that
\* finds the type of one of its existing fields changed in the code leaves the
\* stored descriptor as it was and records an error for the type
C14_TypeChangeBlocked ==
    IF last.op = "sync"
    THEN "syncElementTypes" \notin last.pending =>
           \A i \in 1..Len(last.elementTypes) :
              ( /\ last.elementTypes[i].id \in DOMAIN last.before.elementType
                /\ count(last.before.element, "typeId", last.elementTypes[i].id) >= 1
                /\ TypeChanged(last.before.elementType[last.elementTypes[i].id].schema,
                               serializeZodSchema(last.elementTypes[i].schema)) )
              => /\ last.elementTypes[i].id \in DOMAIN elementType
                 /\ elementType[last.elementTypes[i].id]
                      = last.before.elementType[last.elementTypes[i].id]
                 /\ \E e \in Range(last.elementResult.errors) :
                       e.typeId = last.elementTypes[i].id
    ELSE TRUE

\* the diff of a declared type against its stored row is judged unsafe
JudgedUnsafe(typeDef, before, records) ==
    IF typeDef.id \in DOMAIN before
    THEN ~isSchemaChangeSafe(detectSchemaChanges(before[typeDef.id].schema,
                                                 serializeZodSchema(typeDef.schema)),
                             records).safe
    ELSE FALSE

\* the row of a declared type was left alone and an error names the type
LeftAlone(typeDef, before, table, result) ==
    /\ typeDef.id \in DOMAIN table
    /\ table[typeDef.id] = before[typeDef.id]
    /\ \E e \in Range(result.errors) : e.typeId = typeDef.id

\* a declared type was processed: inserted when it was not stored, rewritten from
\* the code when its schema differed, untouched when it did not, and no error
Processed(typeDef, before, table, result) ==
    /\ typeDef.id \in DOMAIN table
    /\ \A e \in Range(result.errors) : e.typeId # typeDef.id
    /\ IF typeDef.id \notin DOMAIN before
       THEN /\ table[typeDef.id].schema = serializeZodSchema(typeDef.schema)
            /\ typeDef.id \in Range(result.added)
       ELSE IF detectSchemaChanges(before[typeDef.id].schema,
                                   serializeZodSchema(typeDef.schema)) = <<>>
       THEN table[typeDef.id] = before[typeDef.id]
       ELSE /\ table[typeDef.id].schema = serializeZodSchema(typeDef.schema)
            /\ table[typeDef.id].parentTypes = typeDef.parentTypes
            /\ typeDef.id \in Range(result.updated)

\* C15: once syncElementTypes (syncLinkTypes) has returned, every declared element
\* (link) type whose diff is judged unsafe has its stored row unchanged and an
\* error recorded, and every other declared type has been processed in that run
C15_UnsafeLeftAloneOthersProcessed ==
    IF last.op = "sync"
    THEN /\ "syncElementTypes" \notin last.pending =>
               \A i \in 1..Len(last.elementTypes) :
                  IF JudgedUnsafe(last.elementTypes[i], last.before.elementType,
                                  count(last.before.element, "typeId",
                                        last.elementTypes[i].id))
                  THEN LeftAlone(last.elementTypes[i], last.before.elementType,
                                 elementType, last.elementResult)
                  ELSE Processed(last.elementTypes[i], last.before.elementType,
                                 elementType, last.elementResult)
         /\ "syncLinkTypes" \notin last.pending =>
               \A i \in 1..Len(last.linkTypes) :
                  IF JudgedUnsafe(last.linkTypes[i], last.before.linkType,
                                  count(last.before.link, "linkTypeId",
                                        last.linkTypes[i].id))
                  THEN LeftAlone(last.linkTypes[i], last.before.linkType,
                                 linkType, last.linkResult)
                  ELSE Processed(last.linkTypes[i], last.before.linkType,
                                 linkType, last.linkResult)
    ELSE TRUE

\* a run has judged an element type and a link type unsafe and has added and
\* updated other types
C15_Witness ==
    IF last.op = "sync"
    THEN /\ last.pending = {}
         /\ last.elementResult.errors # <<>>
         /\ last.linkResult.errors # <<>>
         /\ last.elementResult.updated # <<>>
         /\ last.elementResult.added # <<>>
         /\ last.linkResult.added # <<>>
    ELSE FALSE

\* C16: during a run no link references an element the prune has already deleted,
\* and when a run with --prune has finished, no stored element type or link type
\* is undeclared, no element is of a type that was orphaned, no link is of a link
\* type that was orphaned, and no link references an element the prune removed
C16_PruneRemovesOrphans ==
    IF last.op = "sync"
    THEN /\ \A l \in DOMAIN link :
               link[l].fromId \notin last.removed /\ link[l].toId \notin last.removed
         /\ (last.pc = "exit" /\ last.isPruneMode) =>
               /\ DOMAIN elementType \subseteq TypeIds(last.elementTypes)
               /\ DOMAIN linkType \subseteq TypeIds(last.linkTypes)
               /\ \A e \in DOMAIN element :
                     element[e].typeId \in DOMAIN last.before.elementType
                        => element[e].typeId \in TypeIds(last.elementTypes)
               /\ \A l \in DOMAIN link :
                     link[l].linkTypeId \in DOMAIN last.before.linkType
                        => link[l].linkTypeId \in TypeIds(last.linkTypes)
    ELSE TRUE

(***************************************************************************)
(* The query helpers.                                                      *)
(***************************************************************************)
TraverseReturned == IF last.op = "traverse" THEN last.pc = "returned" ELSE FALSE

\* C17: every call of traverse returns, whatever the stored graph (cycles,
\* self-loop links and parallel links among them) and whatever maxDepth
C17_TraverseTerminates == (last.op = "traverse") ~> TraverseReturned

\* traverse has returned two elements from a start that carries a self-loop link
\* or two parallel links
C17_Witness ==
    /\ TraverseReturned
    /\ Len(last.results) >= 2
    /\ \/ \E l \in DOMAIN link :
             link[l].fromId = last.startElementId /\ link[l].toId = last.startElementId
       \/ \E l, m \in DOMAIN link :
             /\ l # m
             /\ link[l].fromId = link[m].fromId
             /\ link[l].toId = link[m].toId
             /\ link[l].fromId = last.startElementId

\* the stored elements a and b are linked a -> b and b -> a by links the call follows
Cycle(a, b, linkTypeId) ==
    /\ a # b /\ a \in DOMAIN element /\ b \in DOMAIN element
    /\ \E l, m \in DOMAIN link :
          /\ link[l].fromId = a /\ link[l].toId = b
          /\ link[m].fromId = b /\ link[m].toId = a
          /\ linkTypeId # "" => (link[l].linkTypeId = linkTypeId /\ link[m].linkTypeId = linkTypeId)

Occurrences(results, id) == Cardinality({i \in 1..Len(results) : results[i].element = id})

\* C18: in the results of traverse no element id appears twice and no entry is
\* deeper than maxDepth, and a traverse with maxDepth = 2 that started on a cycle
\* A -> B -> A has returned A and B once each
C18_TraverseOncePerElement ==
    IF last.op = "traverse"
    THEN /\ \A i, j \in 1..Len(last.results) :
               last.results[i].element = last.results[j].element => i = j
         /\ \A i \in 1..Len(last.results) : last.results[i].depth <= last.maxDepth
         /\ (last.pc = "returned" /\ last.maxDepth = 2) =>
               \A b \in ElementIds :
                  Cycle(last.startElementId, b, last.linkTypeId)
                     => /\ Occurrences(last.results, last.startElementId) = 1
                        /\ Occurrences(last.results, b) = 1
    ELSE TRUE

\* traverse(A, 2) has returned from the cycle A -> B -> A
C18_Witness ==
    /\ TraverseReturned
    /\ last.maxDepth = 2
    /\ \E b \in ElementIds : Cycle(last.startElementId, b, last.linkTypeId)
    /\ Len(last.results) = 2

\* C19: every entry of getConnectedElements(x) holds the other endpoint of its
\* link and a direction that is true of the link ("from": x is its target, "to":
\* x is its source), and every link touching x whose other endpoint is stored has
\* an entry "from" when x is its target and an entry "to" when x is its source, a
\* link from x to x among them
C19_DirectionOfEntries ==
    IF last.op = "getConnectedElements"
    THEN /\ \A i \in 1..Len(last.results) :
               /\ last.results[i].element
                    = IF link[last.results[i].link].fromId = last.elementId
                      THEN link[last.results[i].link].toId
                      ELSE link[last.results[i].link].fromId
               /\ last.results[i].direction = "from"
                     => link[last.results[i].link].toId = last.elementId
               /\ last.results[i].direction = "to"
                     => link[last.results[i].link].fromId = last.elementId
         /\ \A l \in DOMAIN link :
               ( /\ last.linkTypeId # "" => link[l].linkTypeId = last.linkTypeId
                 /\ link[l].fromId \in DOMAIN element
                 /\ link[l].toId \in DOMAIN element )
               => /\ link[l].toId = last.elementId
                     => \E i \in 1..Len(last.results) :
                           last.results[i].link = l /\ last.results[i].direction = "from"
                  /\ link[l].fromId = last.elementId
                     => \E i \in 1..Len(last.results) :
                           last.results[i].link = l /\ last.results[i].direction = "to"
    ELSE TRUE

\* C20: findByTypePaginated returns as total the number of stored elements of
\* the type and as elements the positions offset .. offset + limit - 1 (counted
\* from 0) of findByType's list, min(limit, max(0, total - offset)) of them
C20_Page ==
    IF last.op = "findByTypePaginated"
    THEN /\ last.total = count(element, "typeId", last.typeId)
         /\ Len(last.elements)
              = IF last.total - last.offset <= 0 THEN 0
                ELSE IF last.limit < last.total - last.offset THEN last.limit
                ELSE last.total - last.offset
         /\ \A i \in 1..Len(last.elements) :
               last.elements[i] = findByType(last.typeId)[last.offset + i]
    ELSE TRUE

\* a page that starts after the first element and ends before the last
C20_Witness ==
    IF last.op = "findByTypePaginated"
    THEN /\ last.offset >= 1
         /\ last.limit >= 1
         /\ Len(last.elements) = last.limit
         /\ last.offset + last.limit <= last.total
    ELSE FALSE

(***************************************************************************)
(* Failures and frames of the store.                                       *)
(***************************************************************************)
\* C21: a step of createLink(fromId, toId, linkTypeId, data) writes a link only
\* when both endpoints are stored elements, the link type is stored and the data
\* passes strict validation; it fails naming the source when fromId is not stored,
\* naming the target when fromId is stored and toId is not, and with type not
\* found only when both endpoints are stored and the link type is not
C21_CreateLinkChecks ==
    [][\A fromId \in ElementIds, toId \in ElementIds, linkTypeId \in LinkTypeIds,
          data \in LinkPayloads :
          createLink(fromId, toId, linkTypeId, data) =>
             /\ link' # link =>
                   /\ fromId \in DOMAIN element /\ toId \in DOMAIN element
                   /\ linkTypeId \in DOMAIN linkType
                   /\ validateLinkData(data,
                                       deserializeZodSchema(linkType[linkTypeId].schema),
                                       "strict").success
             /\ fromId \notin DOMAIN element =>
                   last'.status = "SourceNotFound" /\ last'.id = fromId
             /\ (fromId \in DOMAIN element /\ toId \notin DOMAIN element) =>
                   last'.status = "TargetNotFound" /\ last'.id = toId
             /\ last'.status = "TypeNotFound" <=>
                   /\ fromId \in DOMAIN element /\ toId \in DOMAIN element
                   /\ linkTypeId \notin DOMAIN linkType
             /\ link' = link => last'.status # "ok"]_vars

\* createLink has failed on its target although its link type is not stored either
C21_Witness ==
    /\ last.op = "createLink"
    /\ last.status = "TargetNotFound"
    /\ last.typeId \notin DOMAIN linkType

\* C22: a step of get, update or delete on an element id or link id that is not
\* stored leaves a not-found outcome to its caller (null for get, an error for
\* update and delete)
C22_UnknownIdNotFound ==
    [][/\ \A id \in ElementIds :
             ( /\ id \notin DOMAIN element
               /\ \/ getElement(id)
                  \/ \E data \in RefPayloads : updateElement(id, data)
                  \/ deleteElement(id) )
             => last'.status \in {"NotFound", "null"}
       /\ \A id \in LinkIds :
             ( /\ id \notin DOMAIN link
               /\ \/ getLink(id)
                  \/ \E data \in RefLinkPayloads : updateLink(id, data)
                  \/ deleteLink(id) )
             => last'.status \in {"NotFound", "null"}]_vars

(***************************************************************************)
(* Calls in flight.                                                        *)
(***************************************************************************)
\* both callers have run updateElement on the same stored id and both have returned
BothUpdated ==
    IF last.op = "calls"
    THEN /\ \A p \in Callers :
               last.calls[p].name = "updateElement" /\ last.calls[p].pc = "returned"
         /\ last.calls["first"].args.id = last.calls["second"].args.id
         /\ last.calls["first"].args.id \in DOMAIN element
    ELSE FALSE

\* C23: when two updateElement calls on the same id have both returned, the stored
\* data is the merged and validated data computed by the call that wrote last,
\* whatever the other call wrote
C23_LastWriteWins ==
    BothUpdated =>
       element[last.calls["first"].args.id].data = last.calls[last.lastWrite].local.data

\* a lost update: both calls returned, their payloads have no key in common, and
\* the stored data lacks the key of the call that wrote first
C23_Witness ==
    /\ BothUpdated
    /\ DOMAIN last.calls["first"].args.data \cap DOMAIN last.calls["second"].args.data = {}
    /\ \E p \in Callers :
          /\ p # last.lastWrite
          /\ \A k \in DOMAIN last.calls[p].args.data :
                k \notin DOMAIN element[last.calls[p].args.id].data

\* C26: createLink writes its link only while both of its endpoints are stored
\* elements, so that no interleaving with a deleteElement of an endpoint ends with
\* a link whose fromId or toId is not a stored element
C26_CreateLinkInsertsBetweenStored ==
    [][\A l \in DOMAIN link' \ DOMAIN link :
          link'[l].fromId \in DOMAIN element /\ link'[l].toId \in DOMAIN element]_vars

\* C27: a step of the sync tool that rewrites the stored descriptor of a type is
\* one isSchemaChangeSafe judges safe for the number of elements the type has at
\* the moment of the write: with an element stored, no required field without
\* default is added or changed
C27_CountNotStale ==
    [][\A t \in DOMAIN elementType \cap DOMAIN elementType' :
          elementType'[t] # elementType[t] =>
             isSchemaChangeSafe(detectSchemaChanges(elementType[t].schema,
                                                    elementType'[t].schema),
                                count(element, "typeId", t)).safe]_vars

\* two ids are the endpoints of a stored link the call follows, in either direction
Joined(a, b, linkTypeId) ==
    \E l \in DOMAIN link :
       /\ linkTypeId # "" => link[l].linkTypeId = linkTypeId
       /\ \/ link[l].fromId = a /\ link[l].toId = b
          \/ link[l].fromId = b /\ link[l].toId = a

\* C24: every entry of traverse's results has a path that starts at the start id,
\* ends at the entry's element, has depth + 1 ids, and whose consecutive ids are
\* joined by a stored link (of the link type asked for) in either direction
C24_PathOfEntry ==
    IF last.op = "traverse"
    THEN \A i \in 1..Len(last.results) :
            /\ Len(last.results[i].path) = last.results[i].depth + 1
            /\ last.results[i].path[1] = last.startElementId
            /\ last.results[i].path[Len(last.results[i].path)] = last.results[i].element
            /\ \A j \in 1..(Len(last.results[i].path) - 1) :
                  Joined(last.results[i].path[j], last.results[i].path[j + 1],
                         last.linkTypeId)
    ELSE TRUE

\* traverse has returned an entry one link away from its start
C24_Witness ==
    /\ TraverseReturned
    /\ \E i \in 1..Len(last.results) :
          last.results[i].depth = 1 /\ Len(last.results[i].path) = 2

\* the stored elements next to a set of ids
Neighbours(ids, linkTypeId) ==
    {e \in DOMAIN element : \E a \in ids : Joined(a, e, linkTypeId)}

\* the stored elements at most k links away from a start, through stored elements
RECURSIVE Within(_, _, _)
Within(startElementId, linkTypeId, k) ==
    IF k = 0
    THEN {startElementId} \cap DOMAIN element
    ELSE Within(startElementId, linkTypeId, k - 1)
         \cup Neighbours(Within(startElementId, linkTypeId, k - 1), linkTypeId)

C28_UpdateElementFrame ==
    [][(last'.op = "updateElement" /\ last'.status = "ok") =>
          /\ DOMAIN element' = DOMAIN element
          /\ last'.id \in DOMAIN element
          /\ element'[last'.id].typeId = element[last'.id].typeId
          /\ \A e \in DOMAIN element \ {last'.id} : element'[e] = element[e]
          /\ link' = link
          /\ elementType' = elementType
          /\ linkType' = linkType]_vars

\* an update has rewritten the data of one row while another row, with other
\* data, is stored
C28_Witness ==
    /\ last.op = "updateElement"
    /\ last.status = "ok"
    /\ last.id \in DOMAIN element
    /\ element[last.id].data = last.data
    /\ \E e \in DOMAIN element \ {last.id} : element[e].data # last.data

\* C29: a successful updateLink stores the strict validation of the supplied
\* data alone: a key the link had and the payload lacks is not kept, and the
\* link keeps its endpoints and its link type
C29_UpdateLinkReplaces ==
    [][(last'.op = "updateLink" /\ last'.status = "ok") =>
          /\ last'.id \in DOMAIN link /\ DOMAIN link' = DOMAIN link
          /\ link[last'.id].linkTypeId \in DOMAIN linkType
          /\ validateLinkData(last'.input,
                              deserializeZodSchema(linkType[link[last'.id].linkTypeId].schema),
                              "strict").success
          /\ link'[last'.id].data
                = validateLinkData(last'.input,
                                   deserializeZodSchema(linkType[link[last'.id].linkTypeId].schema),
                                   "strict").data
          /\ DOMAIN link'[last'.id].data \subseteq DOMAIN last'.input
          /\ link'[last'.id].fromId = link[last'.id].fromId
          /\ link'[last'.id].toId = link[last'.id].toId
          /\ link'[last'.id].linkTypeId = link[last'.id].linkTypeId]_vars

\* a link whose type allows the key order has been updated with a payload
\* without it and is stored without it
C29_Witness ==
    /\ last.op = "updateLink"
    /\ last.status = "ok"
    /\ last.input = EmptyObject
    /\ last.id \in DOMAIN link
    /\ link[last.id].data = EmptyObject
    /\ link[last.id].linkTypeId \in DOMAIN linkType
    /\ validateLinkData([order |-> "1"],
                        deserializeZodSchema(linkType[link[last.id].linkTypeId].schema),
                        "strict").success

\* the operations of the store and of the query helpers that read
ReadOps ==
    {"getElement", "getLink", "findElementsByType", "findLinksFrom", "findLinksTo",
     "getConnectedElements", "traverse", "findByTypePaginated"}

\* C30: a read operation leaves every element, link, element type and link type
\* row as it was: what loose validation fills in is in the returned value alone
C30_ReadsLeaveStore ==
    [][last'.op \in ReadOps =>
          /\ element' = element
          /\ link' = link
          /\ elementType' = elementType
          /\ linkType' = linkType]_vars

\* getElement has returned a row with the default of a field the stored row lacks
C30_Witness ==
    /\ last.op = "getElement"
    /\ last.status = "ok"
    /\ last.id \in DOMAIN element
    /\ "completed" \in DOMAIN last.data
    /\ "completed" \notin DOMAIN element[last.id].data

====
